---- MODULE Spec2Model ----
(***************************************************************************)
(* A model of grug's storage and commitment core:                          *)
(*   - the Jellyfish Merkle tree  (crates/jellyfish-merkle/src/tree.rs),   *)
(*   - the cache overlay          (crates/app/src/cache.rs),               *)
(*   - the shared store           (crates/app/src/shared.rs).              *)
(* Each component has its own specification over its own variables; the    *)
(* variables of the other components stay at their initial values.         *)
(***************************************************************************)
EXTENDS Integers, Sequences, FiniteSets, TLC

VARIABLES
    \* ---- Merkle tree (tree.rs) ----
    nodes,        \* the `nodes` map: <<version, bits>> -> Node
    orphans,      \* the `orphans` set: <<orphaned_since_version, version, bits>>
    version,      \* the latest version an apply was made at
    root,         \* what the last apply returned: Option<Hash>
    written,      \* the keys of `nodes` the last apply wrote, in order
    live,         \* ghost: key_hash -> value_hash bindings after the last apply
    prevLive,     \* ghost: the bindings before the last apply
    lastBatch,    \* ghost: the batch of the last apply
    pruned,       \* the prune call just made: its argument, the storage it
                  \* was made on and how it ended; None otherwise
    result,       \* how the last apply ended: "Ok", "NotFound" or "Panic"
    lost,         \* the key of the node that went missing from the store, or None
    call,         \* the apply just made with versions of the caller's choice:
                  \* the build, the versions and the storage before; or None
    \* ---- cache overlay (cache.rs) ----
    base,         \* CacheStore.base: the content of the underlying store
    pending,      \* CacheStore.pending: key -> Op
    lastScan,     \* the arguments and the records of the last scan, or None
    lastRead,     \* the key and the result of the read just made, or None
    lastCall,     \* commit, consume, disassemble or recycle just made: the
                  \* overlay before it and what it returned; None otherwise
    snapshot,     \* ghost: the base's content at construction or last commit
    \* ---- shared store (shared.rs) ----
    store,        \* the content of the store inside the RwLock
    owner,        \* per holder (a SharedStore handle): the thread that uses it
    readers,      \* the holders whose iterator owns a read guard
    writer,       \* the thread that owns the write guard, or None
    pc,           \* per thread: "idle", "wait_write", "writing" or "panicked"
    req,          \* per thread: the batch of the mutation it asked for
    iter,         \* per holder: its SharedIter, or None
    yielded,      \* ghost, per holder: the scan's arguments and what its
                  \* iterator has handed out so far, or None
    holders,      \* the handles alive: the strong references of the Arc
    wrote,        \* ghost: the ops written through any handle since new(),
                  \* the later op of a key over the earlier; None if not kept
    taken,        \* the disassemble call just made: its handle, the other
                  \* handles alive, the ops written, how it ended; or None
    seen,         \* ghost: per key the thread and op of the last completed
                  \* write, and the last read with what it returned and the
                  \* last write of its key at that time; None if not kept
    \* ---- MockHostState (vm/src/testing.rs) ----
    hostStore,    \* the `store` field: key -> value
    iterators,    \* the `iterators` map: id -> the records not yet consumed
    next_iter_id, \* the u32 counter of iterator ids
    issued,       \* ghost: id -> the arguments of the scan that returned it
                  \* and the number of records consumed through next
    hostCall,     \* the host call just made, what it returned and the
                  \* iterators before it; or None
    \* ---- Path::update, Item::update (storage/src/path.rs, sdk/src/item.rs) ----
    kvStore,      \* the store the helpers work on: key -> bytes
    updCall       \* the update just made: helper, key, the store before,
                  \* what the action was given and returned, the result

treeVars   == <<nodes, orphans, version, root, written, live, prevLive, lastBatch,
                pruned, result, lost, call>>
cacheVars  == <<base, pending, lastScan, lastRead, lastCall, snapshot>>
sharedVars == <<store, owner, readers, writer, pc, req, iter, yielded,
                holders, wrote, taken, seen>>
hostVars   == <<hostStore, iterators, next_iter_id, issued, hostCall>>
itemVars   == <<kvStore, updCall>>
vars       == <<nodes, orphans, version, root, written, live, prevLive, lastBatch,
                pruned, result, lost, call,
                base, pending, lastScan, lastRead, lastCall, snapshot,
                store, owner, readers, writer, pc, req, iter, yielded,
                holders, wrote, taken, seen,
                hostStore, iterators, next_iter_id, issued, hostCall,
                kvStore, updCall>>

\* ------------------------------------------------------------------------
\* Option<T>: None is the empty sequence, Some(x) the one-element sequence.
\* ------------------------------------------------------------------------
None == <<>>
Some(x) == <<x>>
IsSome(o) == o # None

MaxOf(S) == CHOOSE m \in S : \A n \in S : n <= m

\* ========================================================================
\*                          JELLYFISH MERKLE TREE
\* ========================================================================

\* Bounds of the tree model.
KeyBits    == 3   \* the leading bits in which the key hashes of the model differ
NumValues  == 2   \* distinct value hashes
MaxGenesis == 4   \* keys inserted by the batch applied to the empty tree
MaxBatch   == 2   \* ops in every later batch
MaxVersion == 2   \* applies in a run

\* A key hash is a byte string (one byte in the model, 32 in the code); the
\* key hashes of the model are the bytes whose KeyBits leading bits vary.
KeyHashes == { <<k * (2 ^ (8 - KeyBits))>> : k \in 0 .. (2 ^ KeyBits) - 1 }
ValueHashes == 1 .. NumValues

\* The root's bit path.
ROOT_BITS == <<>>

Insert(v) == <<"Insert", v>>
Delete    == <<"Delete">>
IsInsert(op) == op[1] = "Insert"

bit_at_index(bytes, index) ==
    LET quotient  == index \div 8
        remainder == index % 8
        byte      == bytes[quotient + 1]
    IN  (byte \div (2 ^ (7 - remainder))) % 2

\* BitArray.extend_one_bit: the left child is bit 0, the right child bit 1.
extend_one_bit(bits, is_left) == Append(bits, IF is_left THEN 0 ELSE 1)

LeafNode(k, v)     == [type |-> "Leaf", key_hash |-> k, value_hash |-> v]
InternalNode(l, r) == [type |-> "Internal", left_child |-> l, right_child |-> r]
Child(ver, h)      == [version |-> ver, hash |-> h]
is_leaf(node)      == node.type = "Leaf"

\* Hashes are terms: SHA-256 is taken to be injective. The first component
\* is the domain-separation byte.
NullHash == <<0, 0>>
\* Mutant of hash_of: an absent child gets the placeholder hash.
hash_of_absent_as_placeholder(child) ==
    IF child = None THEN Some(NullHash) ELSE Some(child[1].hash)

hash_of(child) == IF child = None THEN None ELSE Some(child[1].hash)
HashOrNull(oh) == IF oh = None THEN NullHash ELSE oh[1]
hash_leaf(k, v) == <<1, k, v>>
hash_internal(lh, rh) == <<0, HashOrNull(lh), HashOrNull(rh)>>
NodeHash(node) ==
    IF is_leaf(node)
    THEN hash_leaf(node.key_hash, node.value_hash)
    ELSE hash_internal(hash_of(node.left_child), hash_of(node.right_child))

\* Outcome
Unchanged(onode) == [tag |-> "Unchanged", node |-> onode]
Updated(node)    == [tag |-> "Updated", node |-> Some(node)]
Deleted          == [tag |-> "Deleted", node |-> None]

\* The storage a call works on: the two keyspaces, the log of node writes and
\* whether a load failed (StdError NotFound), after which nothing else runs.
EmptyStorage == [nodes |-> <<>>, orphans |-> {}, writes |-> <<>>, err |-> FALSE]

may_load(st, ver, bits) ==
    IF <<ver, bits>> \in DOMAIN st.nodes THEN Some(st.nodes[<<ver, bits>>]) ELSE None

\* Mutant of save_node: the node replaces the older versions stored at its
\* bit path.
save_node_replaces_older(st, ver, bits, node) ==
    LET kept == {key \in DOMAIN st.nodes : ~(key[2] = bits /\ key[1] < ver)}
    IN  [st EXCEPT !.nodes  = (<<ver, bits>> :> node) @@ [key \in kept |-> st.nodes[key]],
                   !.writes = Append(@, <<ver, bits>>)]

save_node(st, ver, bits, node) ==
    [st EXCEPT !.nodes  = (<<ver, bits>> :> node) @@ st.nodes,
               !.writes = Append(@, <<ver, bits>>)]

\* Mutant of mark_node_as_orphaned: the entry names the node of the version
\* that orphans it.
mark_node_as_orphaned_at_new(st, orphaned_since_version, ver, bits) ==
    [st EXCEPT !.orphans = @ \cup {<<orphaned_since_version, orphaned_since_version, bits>>}]

mark_node_as_orphaned(st, orphaned_since_version, ver, bits) ==
    [st EXCEPT !.orphans = @ \cup {<<orphaned_since_version, ver, bits>>}]

\* slice::partition_point on a batch sorted by key hash, then split_off.
partition_batch(batch, bits) ==
    LET partition_point ==
            Cardinality({i \in 1 .. Len(batch) :
                            bit_at_index(batch[i][1], Len(bits)) = 0})
    IN  [left  |-> SubSeq(batch, 1, partition_point),
         right |-> SubSeq(batch, partition_point + 1, Len(batch))]

\* Mutant of partition_leaf: the leaf goes to the other side.
partition_leaf_swapped(leaf, bits) ==
    IF leaf # None
    THEN IF bit_at_index(leaf[1].key_hash, Len(bits)) = 0
         THEN [left |-> None, right |-> leaf]
         ELSE [left |-> leaf, right |-> None]
    ELSE [left |-> None, right |-> None]

partition_leaf(leaf, bits) ==
    IF leaf # None
    THEN IF bit_at_index(leaf[1].key_hash, Len(bits)) = 0
         THEN [left |-> leaf, right |-> None]
         ELSE [left |-> None, right |-> leaf]
    ELSE [left |-> None, right |-> None]

prepare_batch_for_subtree(batch, existing_leaf) ==
    LET matches(e) == existing_leaf # None /\ e[1] = existing_leaf[1].key_hash
        hits       == {i \in 1 .. Len(batch) : matches(batch[i])}
        kept       == SelectSeq(batch, LAMBDA e : ~matches(e) /\ IsInsert(e[2]))
    IN  [batch |-> [i \in 1 .. Len(kept) |-> <<kept[i][1], kept[i][2][2]>>],
         op    |-> IF hits = {} THEN None ELSE Some(batch[MaxOf(hits)][2])]

into_child(ver, outcome) ==
    IF outcome.tag = "Updated"
    THEN Some(Child(ver, NodeHash(outcome.node[1])))
    ELSE None

RECURSIVE create_subtree(_, _, _, _, _)

\* Mutant of create_subtree: an internal node is saved before its children.
create_subtree_parent_first(st, ver, bits, batch, existing_leaf) ==
    IF Len(batch) = 0 /\ existing_leaf = None
    THEN [out |-> Unchanged(None), st |-> st]
    ELSE IF Len(batch) = 0
    THEN [out |-> Updated(existing_leaf[1]),
          st  |-> save_node(st, ver, bits, existing_leaf[1])]
    ELSE IF Len(batch) = 1 /\ existing_leaf = None
    THEN LET new_node == LeafNode(batch[1][1], batch[1][2])
         IN  [out |-> Updated(new_node), st |-> save_node(st, ver, bits, new_node)]
    ELSE LET pb == partition_batch(batch, bits)
             pl == partition_leaf(existing_leaf, bits)
             l0 == create_subtree(st, ver, extend_one_bit(bits, TRUE), pb.left, pl.left)
             r0 == create_subtree(st, ver, extend_one_bit(bits, FALSE), pb.right, pl.right)
             new_node == InternalNode(into_child(ver, l0.out), into_child(ver, r0.out))
             s1 == save_node(st, ver, bits, new_node)
             l  == create_subtree(s1, ver, extend_one_bit(bits, TRUE), pb.left, pl.left)
             r  == create_subtree(l.st, ver, extend_one_bit(bits, FALSE), pb.right, pl.right)
         IN  [out |-> Updated(new_node), st |-> r.st]

create_subtree(st, ver, bits, batch, existing_leaf) ==
    IF Len(batch) = 0 /\ existing_leaf = None
    THEN [out |-> Unchanged(None), st |-> st]
    ELSE IF Len(batch) = 0
    THEN [out |-> Updated(existing_leaf[1]),
          st  |-> save_node(st, ver, bits, existing_leaf[1])]
    ELSE IF Len(batch) = 1 /\ existing_leaf = None
    THEN LET new_node == LeafNode(batch[1][1], batch[1][2])
         IN  [out |-> Updated(new_node), st |-> save_node(st, ver, bits, new_node)]
    ELSE LET pb == partition_batch(batch, bits)
             pl == partition_leaf(existing_leaf, bits)
             l  == create_subtree(st, ver, extend_one_bit(bits, TRUE), pb.left, pl.left)
             r  == create_subtree(l.st, ver, extend_one_bit(bits, FALSE), pb.right, pl.right)
             new_node == InternalNode(into_child(ver, l.out), into_child(ver, r.out))
         IN  [out |-> Updated(new_node), st |-> save_node(r.st, ver, bits, new_node)]

\* Mutant of apply_at_leaf: an overwrite of the leaf's value is dropped.
apply_at_leaf_stale(st, new_version, bits, leaf_node, batch) ==
    LET p == prepare_batch_for_subtree(batch, Some(leaf_node))
    IN  IF Len(p.batch) = 0
        THEN IF p.op # None /\ ~IsInsert(p.op[1])
             THEN [out |-> Deleted, st |-> st]
             ELSE [out |-> Unchanged(Some(leaf_node)), st |-> st]
        ELSE IF p.op # None /\ ~IsInsert(p.op[1])
             THEN create_subtree(st, new_version, bits, p.batch, None)
             ELSE create_subtree(st, new_version, bits, p.batch, Some(leaf_node))

\* Mutant of apply_at_leaf: an overwrite with the same value counts as an update.
apply_at_leaf_rewrites_same_value(st, new_version, bits, leaf_node, batch) ==
    LET p  == prepare_batch_for_subtree(batch, Some(leaf_node))
        op == p.op
    IN  IF Len(p.batch) = 0
        THEN IF op # None /\ IsInsert(op[1])
             THEN [out |-> Updated(LeafNode(leaf_node.key_hash, op[1][2])), st |-> st]
             ELSE IF op # None
             THEN [out |-> Deleted, st |-> st]
             ELSE [out |-> Unchanged(Some(leaf_node)), st |-> st]
        ELSE IF op # None /\ IsInsert(op[1])
             THEN create_subtree(st, new_version, bits, p.batch,
                                 Some(LeafNode(leaf_node.key_hash, op[1][2])))
             ELSE IF op # None
             THEN create_subtree(st, new_version, bits, p.batch, None)
             ELSE create_subtree(st, new_version, bits, p.batch, Some(leaf_node))

\* Mutant of apply_at_leaf: a deleted leaf is kept in the new subtree.
apply_at_leaf_keeps_deleted(st, new_version, bits, leaf_node, batch) ==
    LET p  == prepare_batch_for_subtree(batch, Some(leaf_node))
        op == p.op
    IN  IF Len(p.batch) = 0
        THEN IF op # None /\ IsInsert(op[1])
             THEN IF op[1][2] = leaf_node.value_hash
                  THEN [out |-> Unchanged(Some(leaf_node)), st |-> st]
                  ELSE [out |-> Updated(LeafNode(leaf_node.key_hash, op[1][2])), st |-> st]
             ELSE IF op # None
             THEN [out |-> Deleted, st |-> st]
             ELSE [out |-> Unchanged(Some(leaf_node)), st |-> st]
        ELSE IF op # None /\ IsInsert(op[1])
             THEN create_subtree(st, new_version, bits, p.batch,
                                 Some(LeafNode(leaf_node.key_hash, op[1][2])))
             ELSE create_subtree(st, new_version, bits, p.batch, Some(leaf_node))

apply_at_leaf(st, new_version, bits, leaf_node, batch) ==
    LET p  == prepare_batch_for_subtree(batch, Some(leaf_node))
        op == p.op
    IN  IF Len(p.batch) = 0
        THEN IF op # None /\ IsInsert(op[1])
             THEN IF op[1][2] = leaf_node.value_hash
                  THEN [out |-> Unchanged(Some(leaf_node)), st |-> st]
                  ELSE [out |-> Updated(LeafNode(leaf_node.key_hash, op[1][2])), st |-> st]
             ELSE IF op # None
             THEN [out |-> Deleted, st |-> st]
             ELSE [out |-> Unchanged(Some(leaf_node)), st |-> st]
        ELSE IF op # None /\ IsInsert(op[1])
             THEN create_subtree(st, new_version, bits, p.batch,
                                 Some(LeafNode(leaf_node.key_hash, op[1][2])))
             ELSE IF op # None
             THEN create_subtree(st, new_version, bits, p.batch, None)
             ELSE create_subtree(st, new_version, bits, p.batch, Some(leaf_node))

IsGone(outcome) ==
    outcome.tag = "Deleted" \/ (outcome.tag = "Unchanged" /\ outcome.node = None)

IsLeafOutcome(outcome) ==
    /\ outcome.tag = "Updated" \/ (outcome.tag = "Unchanged" /\ outcome.node # None)
    /\ is_leaf(outcome.node[1])

\* Mutant of new_child: an unchanged child is referenced under the new version.
new_child_restamps_unchanged(new_version, outcome, old_child) ==
    IF outcome.tag = "Updated"
    THEN Some(Child(new_version, NodeHash(outcome.node[1])))
    ELSE IF outcome.tag = "Deleted" \/ old_child = None
    THEN None
    ELSE Some(Child(new_version, old_child[1].hash))

new_child(new_version, outcome, old_child) ==
    IF outcome.tag = "Updated"
    THEN Some(Child(new_version, NodeHash(outcome.node[1])))
    ELSE IF outcome.tag = "Deleted"
    THEN None
    ELSE old_child

\* Mutant of combine_outcomes: a lone surviving leaf is not moved up.
combine_outcomes_no_collapse(new_version, internal_node, left, right) ==
    IF IsGone(left) /\ IsGone(right)
    THEN Deleted
    ELSE IF left.tag = "Unchanged" /\ right.tag = "Unchanged"
    THEN Unchanged(Some(internal_node))
    ELSE Updated(InternalNode(new_child(new_version, left, internal_node.left_child),
                              new_child(new_version, right, internal_node.right_child)))

\* The match on (left_outcome, right_outcome) of apply_at_internal.
combine_outcomes(new_version, internal_node, left, right) ==
    IF IsGone(left) /\ IsGone(right)
    THEN Deleted
    ELSE IF left.tag = "Unchanged" /\ right.tag = "Unchanged"
    THEN Unchanged(Some(internal_node))
    ELSE IF IsLeafOutcome(left) /\ IsGone(right)
    THEN Updated(left.node[1])
    ELSE IF IsGone(left) /\ IsLeafOutcome(right)
    THEN Updated(right.node[1])
    ELSE Updated(InternalNode(new_child(new_version, left, internal_node.left_child),
                              new_child(new_version, right, internal_node.right_child)))

RECURSIVE apply_at(_, _, _, _, _)

\* Mutant of apply_at_child: an updated child is saved over its old version.
apply_at_child_saves_in_place(st, new_version, parent_bits, is_left, child, batch) ==
    LET child_bits == extend_one_bit(parent_bits, is_left)
    IN  IF Len(batch) = 0 /\ child # None
        THEN LET child_node == may_load(st, child[1].version, child_bits)
             IN  IF child_node = None
                 THEN [out |-> Unchanged(None), st |-> [st EXCEPT !.err = TRUE]]
                 ELSE [out |-> Unchanged(child_node), st |-> st]
        ELSE IF Len(batch) = 0
        THEN [out |-> Unchanged(None), st |-> st]
        ELSE IF child # None
        THEN LET r  == apply_at(st, new_version, child[1].version, child_bits, batch)
                 s1 == IF r.out.tag = "Updated"
                       THEN save_node(r.st, child[1].version, child_bits, r.out.node[1])
                       ELSE r.st
                 s2 == IF r.out.tag \in {"Deleted", "Updated"}
                       THEN mark_node_as_orphaned(s1, new_version, child[1].version, child_bits)
                       ELSE s1
             IN  IF r.st.err THEN r ELSE [out |-> r.out, st |-> s2]
        ELSE create_subtree(st, new_version, child_bits,
                            prepare_batch_for_subtree(batch, None).batch, None)

\* Mutant of apply_at_child: a deleted child is not marked as orphaned.
apply_at_child_forgets_deleted(st, new_version, parent_bits, is_left, child, batch) ==
    LET child_bits == extend_one_bit(parent_bits, is_left)
    IN  IF Len(batch) = 0 /\ child # None
        THEN LET child_node == may_load(st, child[1].version, child_bits)
             IN  IF child_node = None
                 THEN [out |-> Unchanged(None), st |-> [st EXCEPT !.err = TRUE]]
                 ELSE [out |-> Unchanged(child_node), st |-> st]
        ELSE IF Len(batch) = 0
        THEN [out |-> Unchanged(None), st |-> st]
        ELSE IF child # None
        THEN LET r  == apply_at(st, new_version, child[1].version, child_bits, batch)
                 s1 == IF r.out.tag = "Updated"
                       THEN mark_node_as_orphaned(
                                save_node(r.st, new_version, child_bits, r.out.node[1]),
                                new_version, child[1].version, child_bits)
                       ELSE r.st
             IN  IF r.st.err THEN r ELSE [out |-> r.out, st |-> s1]
        ELSE create_subtree(st, new_version, child_bits,
                            prepare_batch_for_subtree(batch, None).batch, None)

\* Mutant of apply_at_child: a child with no op to apply is saved again
\* under the new version.
apply_at_child_rewrites_untouched(st, new_version, parent_bits, is_left, child, batch) ==
    LET child_bits == extend_one_bit(parent_bits, is_left)
    IN  IF Len(batch) = 0 /\ child # None
        THEN LET child_node == may_load(st, child[1].version, child_bits)
             IN  IF child_node = None
                 THEN [out |-> Unchanged(None), st |-> [st EXCEPT !.err = TRUE]]
                 ELSE [out |-> Updated(child_node[1]),
                       st  |-> save_node(st, new_version, child_bits, child_node[1])]
        ELSE IF Len(batch) = 0
        THEN [out |-> Unchanged(None), st |-> st]
        ELSE IF child # None
        THEN LET r  == apply_at(st, new_version, child[1].version, child_bits, batch)
                 s1 == IF r.out.tag = "Updated"
                       THEN save_node(r.st, new_version, child_bits, r.out.node[1])
                       ELSE r.st
                 s2 == IF r.out.tag \in {"Deleted", "Updated"}
                       THEN mark_node_as_orphaned(s1, new_version, child[1].version, child_bits)
                       ELSE s1
             IN  IF r.st.err THEN r ELSE [out |-> r.out, st |-> s2]
        ELSE create_subtree(st, new_version, child_bits,
                            prepare_batch_for_subtree(batch, None).batch, None)

\* Mutant of apply_at_child: the child is marked as orphaned whatever the outcome.
apply_at_child_orphans_unchanged(st, new_version, parent_bits, is_left, child, batch) ==
    LET child_bits == extend_one_bit(parent_bits, is_left)
    IN  IF Len(batch) = 0 /\ child # None
        THEN LET child_node == may_load(st, child[1].version, child_bits)
             IN  IF child_node = None
                 THEN [out |-> Unchanged(None), st |-> [st EXCEPT !.err = TRUE]]
                 ELSE [out |-> Unchanged(child_node), st |-> st]
        ELSE IF Len(batch) = 0
        THEN [out |-> Unchanged(None), st |-> st]
        ELSE IF child # None
        THEN LET r  == apply_at(st, new_version, child[1].version, child_bits, batch)
                 s1 == IF r.out.tag = "Updated"
                       THEN save_node(r.st, new_version, child_bits, r.out.node[1])
                       ELSE r.st
                 s2 == mark_node_as_orphaned(s1, new_version, child[1].version, child_bits)
             IN  IF r.st.err THEN r ELSE [out |-> r.out, st |-> s2]
        ELSE create_subtree(st, new_version, child_bits,
                            prepare_batch_for_subtree(batch, None).batch, None)

apply_at_child(st, new_version, parent_bits, is_left, child, batch) ==
    LET child_bits == extend_one_bit(parent_bits, is_left)
    IN  IF Len(batch) = 0 /\ child # None
        THEN LET child_node == may_load(st, child[1].version, child_bits)
             IN  IF child_node = None
                 THEN [out |-> Unchanged(None), st |-> [st EXCEPT !.err = TRUE]]
                 ELSE [out |-> Unchanged(child_node), st |-> st]
        ELSE IF Len(batch) = 0
        THEN [out |-> Unchanged(None), st |-> st]
        ELSE IF child # None
        THEN LET r  == apply_at(st, new_version, child[1].version, child_bits, batch)
                 s1 == IF r.out.tag = "Updated"
                       THEN save_node(r.st, new_version, child_bits, r.out.node[1])
                       ELSE r.st
                 s2 == IF r.out.tag \in {"Deleted", "Updated"}
                       THEN mark_node_as_orphaned(s1, new_version, child[1].version, child_bits)
                       ELSE s1
             IN  IF r.st.err THEN r ELSE [out |-> r.out, st |-> s2]
        ELSE create_subtree(st, new_version, child_bits,
                            prepare_batch_for_subtree(batch, None).batch, None)

apply_at_internal(st, new_version, bits, internal_node, batch) ==
    LET pb == partition_batch(batch, bits)
        l  == apply_at_child(st, new_version, bits, TRUE, internal_node.left_child, pb.left)
        r  == apply_at_child(l.st, new_version, bits, FALSE, internal_node.right_child, pb.right)
    IN  IF l.st.err THEN l
        ELSE IF r.st.err THEN r
        ELSE [out |-> combine_outcomes(new_version, internal_node, l.out, r.out),
              st  |-> r.st]

apply_at(st, new_version, old_version, bits, batch) ==
    LET node == may_load(st, old_version, bits)
    IN  IF node # None /\ is_leaf(node[1])
        THEN apply_at_leaf(st, new_version, bits, node[1], batch)
        ELSE IF node # None
        THEN apply_at_internal(st, new_version, bits, node[1], batch)
        ELSE create_subtree(st, new_version, bits,
                            prepare_batch_for_subtree(batch, None).batch, None)

\* Mutant of apply: an unchanged root is not returned.
apply_drops_unchanged_root(st, old_version, new_version, batch) ==
    LET s0 == IF <<old_version, ROOT_BITS>> \in DOMAIN st.nodes
              THEN mark_node_as_orphaned(st, new_version, old_version, ROOT_BITS)
              ELSE st
        r  == apply_at(s0, new_version, old_version, ROOT_BITS, batch)
    IN  IF ~r.st.err /\ r.out.tag = "Updated"
        THEN [root |-> Some(NodeHash(r.out.node[1])),
              st   |-> save_node(r.st, new_version, ROOT_BITS, r.out.node[1])]
        ELSE [root |-> None, st |-> r.st]

\* Mutant of apply: the new root's hash is returned, the node is not saved.
apply_skips_root_save(st, old_version, new_version, batch) ==
    LET s0 == IF <<old_version, ROOT_BITS>> \in DOMAIN st.nodes
              THEN mark_node_as_orphaned(st, new_version, old_version, ROOT_BITS)
              ELSE st
        r  == apply_at(s0, new_version, old_version, ROOT_BITS, batch)
    IN  IF r.st.err
        THEN [root |-> None, st |-> r.st]
        ELSE IF r.out.node # None
        THEN [root |-> Some(NodeHash(r.out.node[1])), st |-> r.st]
        ELSE [root |-> None, st |-> r.st]

\* Mutant of apply: the old root is not marked as orphaned.
apply_without_root_orphan(st, old_version, new_version, batch) ==
    LET r == apply_at(st, new_version, old_version, ROOT_BITS, batch)
    IN  IF r.st.err
        THEN [root |-> None, st |-> r.st]
        ELSE IF r.out.node # None
        THEN [root |-> Some(NodeHash(r.out.node[1])),
              st   |-> save_node(r.st, new_version, ROOT_BITS, r.out.node[1])]
        ELSE [root |-> None, st |-> r.st]

\* MerkleTree::apply: the storage afterwards and the returned Option<Hash>.
apply(st, old_version, new_version, batch) ==
    LET s0 == IF <<old_version, ROOT_BITS>> \in DOMAIN st.nodes
              THEN mark_node_as_orphaned(st, new_version, old_version, ROOT_BITS)
              ELSE st
        r  == apply_at(s0, new_version, old_version, ROOT_BITS, batch)
    IN  IF r.st.err
        THEN [root |-> None, st |-> r.st]
        ELSE IF r.out.node # None
        THEN [root |-> Some(NodeHash(r.out.node[1])),
              st   |-> save_node(r.st, new_version, ROOT_BITS, r.out.node[1])]
        ELSE [root |-> None, st |-> r.st]

\* Mutant of version_is_incremental: version 0 gets no exemption.
version_is_incremental_strict(old_version, new_version) ==
    new_version > old_version

\* The condition of apply's debug_assert!: "version is not incremental".
version_is_incremental(old_version, new_version) ==
    new_version = 0 \/ new_version > old_version

\* apply as a build runs it. debug_assert! is compiled in only when the
\* build has debug assertions; a failed assertion panics before the first
\* statement of the body, and without it the body runs for any versions.
apply_in_build(debug_assertions, st, old_version, new_version, batch) ==
    IF debug_assertions /\ ~version_is_incremental(old_version, new_version)
    THEN [result |-> "Panic", root |-> None, st |-> st]
    ELSE LET r == apply(st, old_version, new_version, batch)
         IN  [result |-> IF r.st.err THEN "NotFound" ELSE "Ok",
              root   |-> r.root,
              st     |-> r.st]

\* prune: todo!(), the call panics before it touches the store.
prune(st, up_to_version) == [result |-> "Panic", st |-> st]

root_hash(st, ver) ==
    LET root_node == may_load(st, ver, ROOT_BITS)
    IN  IF root_node = None THEN None ELSE Some(NodeHash(root_node[1]))


\* Mutant of prove_walk: the hash of the child on the key's path is pushed
\* in place of its sibling's.
RECURSIVE prove_walk_pushes_child(_, _, _, _, _)
prove_walk_pushes_child(st, key_hash, node, bits, sibling_hashes) ==
    IF is_leaf(node)
    THEN [kind |-> "Ok",
          proof_node |-> IF key_hash # node.key_hash
                         THEN Some([type |-> "Leaf", key_hash |-> node.key_hash,
                                    value_hash |-> node.value_hash])
                         ELSE None,
          sibling_hashes |-> sibling_hashes]
    ELSE IF Len(bits) >= 8 * Len(key_hash)
    THEN [kind |-> "Panic", proof_node |-> None, sibling_hashes |-> sibling_hashes]
    ELSE LET bit     == bit_at_index(key_hash, Len(bits))
             child   == IF bit = 0 THEN node.left_child ELSE node.right_child
             sibling == IF bit = 0 THEN node.right_child ELSE node.left_child
         IN  IF child # None
             THEN LET next_bits == Append(bits, bit)
                      next_node == may_load(st, child[1].version, next_bits)
                  IN  IF next_node = None
                      THEN [kind |-> "NotFound", proof_node |-> None,
                            sibling_hashes |-> sibling_hashes]
                      ELSE prove_walk_pushes_child(st, key_hash, next_node[1], next_bits,
                                                   Append(sibling_hashes, Some(child[1].hash)))
             ELSE [kind |-> "Ok",
                   proof_node |-> Some([type |-> "Internal",
                                        left_hash  |-> IF bit = 0 THEN None ELSE hash_of(sibling),
                                        right_hash |-> IF bit = 0 THEN hash_of(sibling) ELSE None]),
                   sibling_hashes |-> sibling_hashes]

\* The walk of MerkleTree::prove from `node` at `bits`; sibling hashes are
\* pushed top-down here and reversed by prove.
RECURSIVE prove_walk(_, _, _, _, _)
prove_walk(st, key_hash, node, bits, sibling_hashes) ==
    IF is_leaf(node)
    THEN [kind |-> "Ok",
          proof_node |-> IF key_hash # node.key_hash
                         THEN Some([type |-> "Leaf", key_hash |-> node.key_hash,
                                    value_hash |-> node.value_hash])
                         ELSE None,
          sibling_hashes |-> sibling_hashes]
    ELSE IF Len(bits) >= 8 * Len(key_hash)
    THEN [kind |-> "Panic", proof_node |-> None, sibling_hashes |-> sibling_hashes]
    ELSE LET bit     == bit_at_index(key_hash, Len(bits))
             child   == IF bit = 0 THEN node.left_child ELSE node.right_child
             sibling == IF bit = 0 THEN node.right_child ELSE node.left_child
         IN  IF child # None
             THEN LET next_bits == Append(bits, bit)
                      next_node == may_load(st, child[1].version, next_bits)
                  IN  IF next_node = None
                      THEN [kind |-> "NotFound", proof_node |-> None,
                            sibling_hashes |-> sibling_hashes]
                      ELSE prove_walk(st, key_hash, next_node[1], next_bits,
                                      Append(sibling_hashes, hash_of(sibling)))
             ELSE [kind |-> "Ok",
                   proof_node |-> Some([type |-> "Internal",
                                        left_hash  |-> IF bit = 0 THEN None ELSE hash_of(sibling),
                                        right_hash |-> IF bit = 0 THEN hash_of(sibling) ELSE None]),
                   sibling_hashes |-> sibling_hashes]

\* Mutant of Reverse: the sibling hashes are left top-down.
ReverseSkipped(s) == s

\* Vec::reverse
Reverse(s) == [i \in 1 .. Len(s) |-> s[Len(s) + 1 - i]]

\* Mutant of prove: a walk that ends at a leaf always gives a Membership proof.
prove_takes_any_leaf(st, key_hash, ver) ==
    LET root_node == may_load(st, ver, ROOT_BITS)
    IN  IF root_node = None
        THEN [kind |-> "NotFound", node |-> None, sibling_hashes |-> <<>>]
        ELSE LET w == prove_walk(st, key_hash, root_node[1], ROOT_BITS, <<>>)
             IN  IF w.kind # "Ok"
                 THEN [kind |-> w.kind, node |-> None, sibling_hashes |-> <<>>]
                 ELSE IF w.proof_node # None /\ w.proof_node[1].type = "Internal"
                 THEN [kind |-> "NonMembership", node |-> w.proof_node,
                       sibling_hashes |-> Reverse(w.sibling_hashes)]
                 ELSE [kind |-> "Membership", node |-> None,
                       sibling_hashes |-> Reverse(w.sibling_hashes)]

\* MerkleTree::prove: Membership, NonMembership, or the error of a failed load.
prove(st, key_hash, ver) ==
    LET root_node == may_load(st, ver, ROOT_BITS)
    IN  IF root_node = None
        THEN [kind |-> "NotFound", node |-> None, sibling_hashes |-> <<>>]
        ELSE LET w == prove_walk(st, key_hash, root_node[1], ROOT_BITS, <<>>)
             IN  IF w.kind # "Ok"
                 THEN [kind |-> w.kind, node |-> None, sibling_hashes |-> <<>>]
                 ELSE IF w.proof_node # None
                 THEN [kind |-> "NonMembership", node |-> w.proof_node,
                       sibling_hashes |-> Reverse(w.sibling_hashes)]
                 ELSE [kind |-> "Membership", node |-> None,
                       sibling_hashes |-> Reverse(w.sibling_hashes)]

\* Verification of a proof: fold the hash of the node the walk stopped at
\* with the sibling hashes, bottom-up; the sibling at position i sits at
\* depth Len - i + 1, on the other side of bit Len - i of the key hash.
RECURSIVE FoldFrom(_, _, _, _)
FoldFrom(h, sibling_hashes, key_hash, i) ==
    IF i > Len(sibling_hashes)
    THEN h
    ELSE LET bit == bit_at_index(key_hash, Len(sibling_hashes) - i)
             up  == IF bit = 0
                    THEN hash_internal(Some(h), sibling_hashes[i])
                    ELSE hash_internal(sibling_hashes[i], Some(h))
         IN  FoldFrom(up, sibling_hashes, key_hash, i + 1)

ProofNodeHash(proof_node) ==
    IF proof_node.type = "Leaf"
    THEN hash_leaf(proof_node.key_hash, proof_node.value_hash)
    ELSE hash_internal(proof_node.left_hash, proof_node.right_hash)

FoldMembership(proof, key_hash, value_hash) ==
    FoldFrom(hash_leaf(key_hash, value_hash), proof.sibling_hashes, key_hash, 1)

FoldNonMembership(proof, key_hash) ==
    FoldFrom(ProofNodeHash(proof.node[1]), proof.sibling_hashes, key_hash, 1)

\* The node keys reachable from the node stored at <<ver, bits>>.
RECURSIVE ReachFrom(_, _, _)
ReachFrom(st, ver, bits) ==
    IF <<ver, bits>> \notin DOMAIN st.nodes
    THEN {}
    ELSE LET node == st.nodes[<<ver, bits>>]
             sub(child, is_left) ==
                 IF child = None THEN {}
                 ELSE ReachFrom(st, child[1].version, extend_one_bit(bits, is_left))
         IN  IF is_leaf(node)
             THEN {<<ver, bits>>}
             ELSE {<<ver, bits>>} \cup sub(node.left_child, TRUE)
                                   \cup sub(node.right_child, FALSE)

Reachable(st, ver) == ReachFrom(st, ver, ROOT_BITS)

\* ---- the tree's state machine ----

\* Batches: sorted strictly ascending by key hash, as apply requires.
RECURSIVE SortedKeys(_)
SortedKeys(S) ==
    IF S = {} THEN <<>>
    ELSE LET m == CHOOSE k \in S : \A o \in S : k[1] <= o[1]
         IN  <<m>> \o SortedKeys(S \ {m})

TreeOps == {Insert(v) : v \in ValueHashes} \cup {Delete}

BatchesOfSize(n) ==
    UNION { LET ks == SortedKeys(K)
            IN  { [i \in 1 .. Len(ks) |-> <<ks[i], f[ks[i]]>>] : f \in [K -> TreeOps] }
          : K \in {K \in SUBSET KeyHashes : Cardinality(K) <= n} }

\* The batch applied to the empty tree populates it: inserts of the first
\* value hash. Every later batch mixes inserts of any value hash and deletes.
GenesisBatches ==
    { LET ks == SortedKeys(K) IN [i \in 1 .. Len(ks) |-> <<ks[i], Insert(1)>>]
      : K \in {K \in SUBSET KeyHashes : Cardinality(K) <= MaxGenesis} }
UpdateBatches  == BatchesOfSize(MaxBatch)

\* The bindings after a batch: Insert adds or overrides, Delete removes.
\* The batch that deletes every key of the bindings.
DeleteAllBatch(bindings) ==
    LET ks == SortedKeys(DOMAIN bindings)
    IN  [i \in 1 .. Len(ks) |-> <<ks[i], Delete>>]

ApplyToLive(bindings, batch) ==
    LET ins == {batch[i][1] : i \in {j \in 1 .. Len(batch) : IsInsert(batch[j][2])}}
        del == {batch[i][1] : i \in {j \in 1 .. Len(batch) : ~IsInsert(batch[j][2])}}
        opOf(k) == batch[CHOOSE i \in 1 .. Len(batch) : batch[i][1] = k][2]
    IN  [k \in (DOMAIN bindings \ del) \cup ins |->
            IF k \in ins THEN opOf(k)[2] ELSE bindings[k]]

Storage == [nodes |-> nodes, orphans |-> orphans, writes |-> <<>>, err |-> FALSE]

CacheIdle ==
    /\ base = <<>> /\ pending = <<>> /\ lastScan = None /\ lastRead = None
    /\ lastCall = None /\ snapshot = <<>>
HostIdle ==
    /\ hostStore = <<>> /\ iterators = <<>> /\ next_iter_id = <<0, 0>>
    /\ issued = <<>> /\ hostCall = None
ItemIdle == kvStore = <<>> /\ updCall = None
SharedIdle ==
    /\ store = <<>> /\ owner = <<>> /\ readers = {} /\ writer = None
    /\ pc = <<>> /\ req = <<>> /\ iter = <<>> /\ yielded = <<>>
    /\ holders = {} /\ wrote = None /\ taken = None /\ seen = None

InitTree ==
    /\ nodes = <<>> /\ orphans = {} /\ version = 0 /\ root = None
    /\ written = <<>> /\ live = <<>> /\ prevLive = <<>> /\ lastBatch = <<>>
    /\ pruned = None /\ result = "Ok" /\ lost = None /\ call = None
    /\ CacheIdle /\ SharedIdle /\ HostIdle /\ ItemIdle

\* apply(store, version, version + 1, batch)
Apply(batch) ==
    /\ version < MaxVersion
    /\ pruned = None
    /\ call = None
    /\ \E r \in {apply(Storage, version, version + 1, batch)} :
           /\ nodes' = r.st.nodes
           /\ orphans' = r.st.orphans
           /\ written' = r.st.writes
           /\ root' = r.root
           /\ result' = IF r.st.err THEN "NotFound" ELSE "Ok"
    /\ version' = version + 1
    /\ prevLive' = live
    /\ live' = ApplyToLive(live, batch)
    /\ lastBatch' = batch
    /\ UNCHANGED <<pruned, lost, call, cacheVars, sharedVars, hostVars, itemVars>>

NextTree ==
    \E batch \in (IF version = 0 THEN GenesisBatches
                   ELSE UpdateBatches \cup {DeleteAllBatch(live)}) : Apply(batch)

SpecTree == InitTree /\ [][NextTree]_vars

\* The store is the caller's: a node of the first version goes missing from
\* it before the next apply.
LoseNode(key) ==
    /\ version = 1
    /\ lost = None
    /\ pruned = None
    /\ call = None
    /\ key \in DOMAIN nodes
    /\ nodes' = [k \in DOMAIN nodes \ {key} |-> nodes[k]]
    /\ lost' = Some(key)
    /\ UNCHANGED <<orphans, version, root, written, live, prevLive, lastBatch,
                   pruned, result, call, cacheVars, sharedVars, hostVars, itemVars>>

\* The tree is populated, a node goes missing, and a small batch is applied.
MaxLostBatch == 1
LostBatches == BatchesOfSize(MaxLostBatch)

NextLost ==
    \/ version = 0 /\ NextTree
    \/ \E key \in DOMAIN nodes : LoseNode(key)
    \/ lost # None /\ \E batch \in LostBatches : Apply(batch)

SpecLost == InitTree /\ [][NextLost]_vars

\* The tree is populated by the genesis batch, then apply is called once
\* with any pair of versions.
MaxCallVersion == 1
MaxCallBatch   == 1
CallBatches    == BatchesOfSize(MaxCallBatch)

\* apply(store, old_version, new_version, batch) with versions of the
\* caller's choice, in a build with or without debug assertions. The call
\* is the last one of the run; version, live, prevLive and lastBatch keep
\* describing the incremental history before it.
ApplyVersions(debug_assertions, old_version, new_version, batch) ==
    /\ call = None
    /\ pruned = None
    /\ lost = None
    /\ version <= MaxCallVersion
    /\ \E r \in {apply_in_build(debug_assertions, Storage,
                                 old_version, new_version, batch)} :
           /\ nodes' = r.st.nodes
           /\ orphans' = r.st.orphans
           /\ written' = r.st.writes
           /\ root' = r.root
           /\ result' = r.result
    /\ call' = Some([debug_assertions |-> debug_assertions,
                     old_version |-> old_version,
                     new_version |-> new_version,
                     batch |-> batch,
                     nodes |-> nodes, orphans |-> orphans])
    /\ UNCHANGED <<version, live, prevLive, lastBatch, pruned, lost,
                   cacheVars, sharedVars, hostVars, itemVars>>

NextVersions ==
    \/ version = 0 /\ NextTree
    \/ \E debug_assertions \in BOOLEAN, old_version \in 0 .. MaxVersion,
          new_version \in 0 .. MaxVersion, batch \in CallBatches :
          ApplyVersions(debug_assertions, old_version, new_version, batch)

SpecVersions == InitTree /\ [][NextVersions]_vars

\* prune(store, up_to_version). The panic ends the caller: nothing is
\* called on the tree after it.
Prune(up_to_version) ==
    /\ pruned = None
    /\ LET r == prune(Storage, up_to_version)
       IN  /\ nodes' = r.st.nodes
           /\ orphans' = r.st.orphans
           /\ pruned' = Some([up_to_version |-> up_to_version,
                              nodes |-> nodes, orphans |-> orphans,
                              result |-> r.result])
    /\ UNCHANGED <<version, root, written, live, prevLive, lastBatch,
                   result, lost, call, cacheVars, sharedVars, hostVars, itemVars>>

PruneArgs == {None} \cup {Some(ver) : ver \in 0 .. MaxVersion}

NextPrune ==
    \/ NextTree
    \/ \E up_to_version \in PruneArgs : Prune(up_to_version)

SpecPrune == InitTree /\ [][NextPrune]_vars


\* ========================================================================
\*                     BYTE KEYS AND THE BASE KV STORE
\* ========================================================================

\* Lexicographic order of byte strings (Ord for [u8] and Vec<u8>).
BytesLt(a, b) ==
    \E i \in 1 .. Len(b) :
        /\ \A j \in 1 .. i - 1 : j <= Len(a) /\ a[j] = b[j]
        /\ (i > Len(a) \/ a[i] < b[i])
BytesLe(a, b) == a = b \/ BytesLt(a, b)

\* The byte strings of length minLen .. maxLen over the bytes 0 .. maxByte.
BytesOfLen(minLen, maxLen, maxByte) ==
    UNION { [1 .. n -> 0 .. maxByte] : n \in minLen .. maxLen }

Orders == {"Ascending", "Descending"}

RECURSIVE SortAscending(_)
SortAscending(S) ==
    IF S = {} THEN <<>>
    ELSE LET m == CHOOSE k \in S : \A o \in S : BytesLe(k, o)
         IN  <<m>> \o SortAscending(S \ {m})

InOrder(keys, order) ==
    IF order = "Ascending" THEN SortAscending(keys) ELSE Reverse(SortAscending(keys))

InRange(k, min, max) ==
    /\ min = None \/ BytesLe(min[1], k)
    /\ max = None \/ BytesLt(k, max[1])

\* The base store (MockStorage): content is a function key -> value.
\* scan yields the records with min <= key < max in the given order.
MockScan(content, min, max, order) ==
    LET ks == InOrder({k \in DOMAIN content : InRange(k, min, max)}, order)
    IN  [i \in 1 .. Len(ks) |-> <<ks[i], content[ks[i]]>>]

MockRead(content, key) ==
    IF key \in DOMAIN content THEN Some(content[key]) ELSE None

\* Storage::flush on the base store: Insert writes, Delete removes.
MockFlush(content, batch) ==
    LET ins == {k \in DOMAIN batch : IsInsert(batch[k])}
        del == {k \in DOMAIN batch : ~IsInsert(batch[k])}
    IN  [k \in (DOMAIN content \ del) \cup ins |->
            IF k \in ins THEN batch[k][2] ELSE content[k]]

\* Mutant of BatchExtend: the op already pending wins on the keys both have.
BatchExtendKeepsExisting(batch, incoming) ==
    [k \in DOMAIN batch \cup DOMAIN incoming |->
        IF k \in DOMAIN batch THEN batch[k] ELSE incoming[k]]

\* BTreeMap::extend: the incoming batch wins on the keys both have.
BatchExtend(batch, incoming) ==
    [k \in DOMAIN batch \cup DOMAIN incoming |->
        IF k \in DOMAIN incoming THEN incoming[k] ELSE batch[k]]

\* ========================================================================
\*                             CACHE OVERLAY
\* ========================================================================

\* Bounds of the cache model.
MaxCacheKeyLen == 1   \* keys are the byte strings of length 0 .. MaxCacheKeyLen
MaxCacheByte   == 2   \* over the bytes 0 .. MaxCacheByte
MaxCacheValue  == 2   \* values 1 .. MaxCacheValue
MaxBase        == 2   \* records in the base store
MaxPending     == 2   \* ops in the pending batch

CacheKeys   == BytesOfLen(0, MaxCacheKeyLen, MaxCacheByte)
CacheValues == 1 .. MaxCacheValue
CacheOps    == {Insert(v) : v \in CacheValues} \cup {Delete}
CacheBounds == {None} \cup {Some(k) : k \in CacheKeys}

MapsUpTo(keys, vals, n) ==
    UNION { [K -> vals] : K \in {K \in SUBSET keys : Cardinality(K) <= n} }

CacheBases   == MapsUpTo(CacheKeys, CacheValues, MaxBase)
CacheBatches == MapsUpTo(CacheKeys, CacheOps, MaxPending)

\* pending.range((Included(min) | Unbounded, Excluded(max) | Unbounded)),
\* reversed for a descending scan.
PendingRange(batch, min, max, order) ==
    LET ks == InOrder({k \in DOMAIN batch : InRange(k, min, max)}, order)
    IN  [i \in 1 .. Len(ks) |-> <<ks[i], batch[ks[i]]>>]

Cmp(a, b) == IF BytesLt(a, b) THEN -1 ELSE IF a = b THEN 0 ELSE 1

\* Merged::next and Merged::take_pending on the two peekable iterators, each
\* the sequence of what it has left: the item and the iterators afterwards.
RECURSIVE MergedNext(_, _, _)

take_pending(b, p, order) ==
    IF p = <<>>
    THEN [item |-> None, base |-> b, pending |-> p]
    ELSE IF IsInsert(Head(p)[2])
    THEN [item |-> Some(<<Head(p)[1], Head(p)[2][2]>>), base |-> b, pending |-> Tail(p)]
    ELSE MergedNext(b, Tail(p), order)

\* Mutant of on_equal_keys: the base record under a pending op is kept.
on_equal_keys_keeps_base(b, p, order) == take_pending(b, p, order)

\* Ordering::Equal in Merged::next: the base record is dropped, the pending op taken.
on_equal_keys(b, p, order) == take_pending(Tail(b), p, order)

MergedNext(b, p, order) ==
    IF b # <<>> /\ p # <<>>
    THEN LET ordering_raw == Cmp(Head(b)[1], Head(p)[1])
             ordering     == IF order = "Ascending" THEN ordering_raw ELSE -ordering_raw
         IN  IF ordering < 0
             THEN [item |-> Some(Head(b)), base |-> Tail(b), pending |-> p]
             ELSE IF ordering = 0
             THEN on_equal_keys(b, p, order)
             ELSE take_pending(b, p, order)
    ELSE IF p # <<>>
    THEN take_pending(b, p, order)
    ELSE IF b # <<>>
    THEN [item |-> Some(Head(b)), base |-> Tail(b), pending |-> p]
    ELSE [item |-> None, base |-> b, pending |-> p]

\* The records the Merged iterator yields until it returns None.
RECURSIVE MergedCollect(_, _, _)
MergedCollect(b, p, order) ==
    LET n == MergedNext(b, p, order)
    IN  IF n.item = None THEN <<>>
        ELSE <<n.item[1]>> \o MergedCollect(n.base, n.pending, order)

\* CacheStore::scan
CacheScan(content, batch, min, max, order) ==
    IF min # None /\ max # None /\ BytesLt(max[1], min[1])
    THEN <<>>
    ELSE MergedCollect(MockScan(content, min, max, order),
                       PendingRange(batch, min, max, order), order)

\* Mutant of CacheRead: the base store is asked first.
CacheReadBaseFirst(content, batch, key) ==
    IF key \in DOMAIN content
    THEN MockRead(content, key)
    ELSE IF key \in DOMAIN batch /\ IsInsert(batch[key])
    THEN Some(batch[key][2])
    ELSE None

\* CacheStore::read
CacheRead(content, batch, key) ==
    IF key \in DOMAIN batch
    THEN IF IsInsert(batch[key]) THEN Some(batch[key][2]) ELSE None
    ELSE MockRead(content, key)

\* ---- the overlay's state machine ----

TreeIdle ==
    /\ nodes = <<>> /\ orphans = {} /\ version = 0 /\ root = None
    /\ written = <<>> /\ live = <<>> /\ prevLive = <<>> /\ lastBatch = <<>>
    /\ pruned = None /\ result = "Ok" /\ lost = None /\ call = None

\* CacheStore::new(base, None) over a base store of any content.
InitCache ==
    /\ base \in CacheBases
    /\ pending = <<>>
    /\ lastScan = None
    /\ lastRead = None
    /\ lastCall = None
    /\ snapshot = base
    /\ TreeIdle /\ SharedIdle /\ HostIdle /\ ItemIdle

\* The overlay exists until consume, disassemble or recycle takes it.
OverlayAlive ==
    IF lastCall = None THEN TRUE ELSE lastCall[1].op \in {"commit", "flush"}

\* Mutant of commit: the pending batch is flushed but not taken.
commit_keeps_pending(content, batch) ==
    [base |-> MockFlush(content, batch), pending |-> batch]

\* CacheStore::commit: mem::take the pending batch, flush it to the base.
commit(content, batch) ==
    [base |-> MockFlush(content, batch), pending |-> <<>>]

\* CacheStore::consume: the base after the flush.
consume(content, batch) == MockFlush(content, batch)

\* Mutant of disassemble: the pending batch is flushed to the base first.
disassemble_flushes(content, batch) ==
    [base |-> MockFlush(content, batch), pending |-> batch]

\* CacheStore::disassemble
disassemble(content, batch) == [base |-> content, pending |-> batch]

\* Cached::recycle
recycle(content, batch) == content

CacheWrite(key, value) ==
    /\ OverlayAlive
    /\ lastScan = None
    /\ Cardinality(DOMAIN pending \cup {key}) <= MaxPending
    /\ pending' = BatchExtend(pending, key :> Insert(value))
    /\ lastScan' = None
    /\ lastRead' = None
    /\ lastCall' = None
    /\ UNCHANGED <<base, snapshot, treeVars, sharedVars, hostVars, itemVars>>

CacheRemove(key) ==
    /\ OverlayAlive
    /\ lastScan = None
    /\ Cardinality(DOMAIN pending \cup {key}) <= MaxPending
    /\ pending' = BatchExtend(pending, key :> Delete)
    /\ lastScan' = None
    /\ lastRead' = None
    /\ lastCall' = None
    /\ UNCHANGED <<base, snapshot, treeVars, sharedVars, hostVars, itemVars>>

CacheFlush(batch) ==
    /\ OverlayAlive
    /\ lastScan = None
    /\ Cardinality(DOMAIN pending \cup DOMAIN batch) <= MaxPending
    /\ pending' = BatchExtend(pending, batch)
    /\ lastScan' = None
    /\ lastRead' = None
    /\ lastCall' = None
    /\ UNCHANGED <<base, snapshot, treeVars, sharedVars, hostVars, itemVars>>

CacheCommit ==
    /\ OverlayAlive
    /\ lastScan = None
    /\ Cardinality(DOMAIN commit(base, pending).base) <= MaxBase
    /\ base' = commit(base, pending).base
    /\ pending' = commit(base, pending).pending
    /\ snapshot' = commit(base, pending).base
    /\ lastCall' = Some([op |-> "commit", base |-> base, pending |-> pending,
                         ret |-> None])
    /\ lastScan' = None
    /\ lastRead' = None
    /\ UNCHANGED <<treeVars, sharedVars, hostVars, itemVars>>

\* consume(): the overlay is gone, the flushed base store is returned.
CacheConsume ==
    /\ OverlayAlive
    /\ lastScan = None
    /\ base' = consume(base, pending)
    /\ pending' = <<>>
    /\ lastCall' = Some([op |-> "consume", base |-> base, pending |-> pending,
                         ret |-> Some(consume(base, pending))])
    /\ lastRead' = None
    /\ UNCHANGED <<lastScan, snapshot, treeVars, sharedVars, hostVars, itemVars>>

\* disassemble(): the overlay is gone, base and pending are returned.
CacheDisassemble ==
    /\ OverlayAlive
    /\ lastScan = None
    /\ base' = disassemble(base, pending).base
    /\ pending' = disassemble(base, pending).pending
    /\ lastCall' = Some([op |-> "disassemble", base |-> base, pending |-> pending,
                         ret |-> Some(disassemble(base, pending))])
    /\ lastRead' = None
    /\ UNCHANGED <<lastScan, snapshot, treeVars, sharedVars, hostVars, itemVars>>

\* Cached::recycle(), or the overlay dropped: the pending batch is discarded.
CacheRecycle ==
    /\ OverlayAlive
    /\ lastScan = None
    /\ base' = recycle(base, pending)
    /\ pending' = <<>>
    /\ lastCall' = Some([op |-> "recycle", base |-> base, pending |-> pending,
                         ret |-> Some(recycle(base, pending))])
    /\ lastRead' = None
    /\ UNCHANGED <<lastScan, snapshot, treeVars, sharedVars, hostVars, itemVars>>

\* scan(min, max, order), collected. The iterator borrows the overlay, so
\* nothing else is called on it until the iterator is dropped.
CacheScanAll(min, max, order) ==
    /\ OverlayAlive
    /\ lastScan = None
    /\ lastScan' = Some([min |-> min, max |-> max, order |-> order,
                         records |-> CacheScan(base, pending, min, max, order)])
    /\ lastRead' = None
    /\ lastCall' = None
    /\ UNCHANGED <<base, pending, snapshot, treeVars, sharedVars, hostVars, itemVars>>

CacheDropIter ==
    /\ OverlayAlive
    /\ lastScan # None
    /\ lastScan' = None
    /\ lastRead' = None
    /\ lastCall' = None
    /\ UNCHANGED <<base, pending, snapshot, treeVars, sharedVars, hostVars, itemVars>>

\* read(key). It takes &self and does not look at an iterator; the model
\* makes the call when no iterator is out.
CacheReadKey(key) ==
    /\ OverlayAlive
    /\ lastScan = None
    /\ lastRead' = Some([key |-> key, value |-> CacheRead(base, pending, key)])
    /\ lastCall' = None
    /\ UNCHANGED <<base, pending, lastScan, snapshot, treeVars, sharedVars, hostVars, itemVars>>

NextCache ==
    \/ \E key \in CacheKeys, value \in CacheValues : CacheWrite(key, value)
    \/ \E key \in CacheKeys : CacheRemove(key)
    \/ \E batch \in CacheBatches : CacheFlush(batch)
    \/ CacheCommit
    \/ \E min \in CacheBounds, max \in CacheBounds, order \in Orders :
          CacheScanAll(min, max, order)
    \/ CacheDropIter
    \/ \E key \in CacheKeys : CacheReadKey(key)
    \/ CacheConsume
    \/ CacheDisassemble
    \/ CacheRecycle

SpecCache == InitCache /\ [][NextCache]_vars

\* flush(batch) with the call kept in lastCall: the pending batch before it
\* and the batch flushed. At most two flushes are made between two commits.
CacheFlushLogged(batch) ==
    /\ OverlayAlive
    /\ lastScan = None
    /\ IF lastCall = None THEN TRUE
       ELSE IF lastCall[1].op = "flush" THEN lastCall[1].pending = <<>>
       ELSE TRUE
    /\ Cardinality(DOMAIN pending \cup DOMAIN batch) <= MaxPending
    /\ pending' = BatchExtend(pending, batch)
    /\ lastCall' = Some([op |-> "flush", base |-> base, pending |-> pending,
                         ret |-> Some(batch)])
    /\ lastScan' = None
    /\ lastRead' = None
    /\ UNCHANGED <<base, snapshot, treeVars, sharedVars, hostVars, itemVars>>

\* An overlay that is only flushed into and committed.
NextFlush ==
    \/ \E batch \in CacheBatches : CacheFlushLogged(batch)
    \/ CacheCommit

SpecFlush == InitCache /\ [][NextFlush]_vars

\* ========================================================================
\*                              SHARED STORE
\* ========================================================================

\* SharedIter::BATCH_SIZE
BATCH_SIZE == 30

\* Bounds of the shared-store models.
NumThreads     == 2   \* threads 1 .. NumThreads
NumHolders     == 2   \* SharedStore handles 1 .. NumHolders (new, then share)
MaxSharedByte  == 1   \* locking model: one-byte keys over 0 .. MaxSharedByte
MaxSharedValue == 2   \* locking model: values 1 .. MaxSharedValue
MaxFlush       == 1   \* locking model: ops in a flushed batch
MaxKeyLen      == 3   \* paging model: keys of length 1 .. MaxKeyLen
MaxByte        == 2   \* paging model: over the bytes 0 .. MaxByte
MaxAbsent      == 1   \* paging model: one-byte keys missing from the store

Threads == 1 .. NumThreads
Holders == 1 .. NumHolders

Take(s, n) == SubSeq(s, 1, IF Len(s) < n THEN Len(s) ELSE n)

\* increment_last_byte: the trailing byte is incremented; a trailing 255
\* (or no byte at all) gets a zero appended instead.
increment_last_byte(bytes) ==
    IF bytes = <<>> \/ bytes[Len(bytes)] = 255
    THEN Append(bytes, 0)
    ELSE [bytes EXCEPT ![Len(bytes)] = @ + 1]

\* SharedIter::new; the read guard it takes over is the holder's place in `readers`.
SharedIterNew(min, max, order) ==
    [batch |-> <<>>, min |-> min, max |-> max, order |-> order]

\* Mutant of collect_next_batch: the bounds are left as they were.
collect_next_batch_keeps_bounds(content, it) ==
    [it EXCEPT !.batch = Take(MockScan(content, it.min, it.max, it.order), BATCH_SIZE)]

\* SharedIter::collect_next_batch
collect_next_batch(content, it) ==
    LET batch == Take(MockScan(content, it.min, it.max, it.order), BATCH_SIZE)
    IN  IF batch = <<>>
        THEN [it EXCEPT !.batch = batch]
        ELSE IF it.order = "Ascending"
        THEN [it EXCEPT !.batch = batch,
                        !.min = Some(increment_last_byte(batch[Len(batch)][1]))]
        ELSE [it EXCEPT !.batch = batch,
                        !.max = Some(batch[Len(batch)][1])]

\* SharedIter::next: the item and the iterator afterwards.
iter_next(content, it) ==
    IF it.batch # <<>>
    THEN [item |-> Some(Head(it.batch)), iter |-> [it EXCEPT !.batch = Tail(@)]]
    ELSE LET fetched == collect_next_batch(content, it)
         IN  IF fetched.batch = <<>>
             THEN [item |-> None, iter |-> fetched]
             ELSE [item |-> Some(Head(fetched.batch)),
                   iter |-> [fetched EXCEPT !.batch = Tail(@)]]

HoldsRead(t) == \E h \in readers : owner[h] = t

\* ---- operations on a handle h, made by the thread owner[h] ----

\* SharedStore::scan: read_access() is taken here and moved into the iterator.
SharedScan(h, min, max, order) ==
    /\ h \in holders
    /\ pc[owner[h]] = "idle"
    /\ iter[h] = None
    /\ writer = None
    /\ readers' = readers \cup {h}
    /\ iter' = [iter EXCEPT ![h] = Some(SharedIterNew(min, max, order))]
    /\ yielded' = [yielded EXCEPT ![h] =
            Some([min |-> min, max |-> max, order |-> order,
                  records |-> <<>>, ended |-> FALSE])]
    /\ UNCHANGED <<store, owner, writer, pc, req, holders, wrote, taken, seen,
                   treeVars, cacheVars, hostVars, itemVars>>

\* SharedIter::next, until it has returned None.
SharedIterNext(h) ==
    /\ h \in holders
    /\ pc[owner[h]] = "idle"
    /\ iter[h] # None
    /\ ~yielded[h][1].ended
    /\ LET n == iter_next(store, iter[h][1])
       IN  /\ iter' = [iter EXCEPT ![h] = Some(n.iter)]
           /\ yielded' = [yielded EXCEPT ![h] =
                  Some(IF n.item = None
                       THEN [@[1] EXCEPT !.ended = TRUE]
                       ELSE [@[1] EXCEPT !.records = Append(@, n.item[1])])]
    /\ UNCHANGED <<store, owner, readers, writer, pc, req, holders, wrote, taken, seen,
                   treeVars, cacheVars, hostVars, itemVars>>

\* The iterator is dropped, and its read guard with it.
SharedIterDrop(h) ==
    /\ h \in holders
    /\ pc[owner[h]] = "idle"
    /\ iter[h] # None
    /\ iter' = [iter EXCEPT ![h] = None]
    /\ yielded' = [yielded EXCEPT ![h] = None]
    /\ readers' = readers \ {h}
    /\ UNCHANGED <<store, owner, writer, pc, req, holders, wrote, taken, seen,
                   treeVars, cacheVars, hostVars, itemVars>>

\* SharedStore::read: read_access() returns once no write guard is out, the
\* inner store is read and the guard is dropped at the end of the statement.
SharedRead(h, key) ==
    /\ h \in holders
    /\ pc[owner[h]] = "idle"
    /\ writer = None
    /\ seen # None
    /\ seen' = Some([seen[1] EXCEPT !.read =
            Some([holder |-> h, key |-> key, value |-> MockRead(store, key),
                  last |-> IF key \in DOMAIN seen[1].by
                           THEN Some(seen[1].by[key]) ELSE None])])
    /\ UNCHANGED <<store, owner, readers, writer, pc, req, iter, yielded,
                   holders, wrote, taken, treeVars, cacheVars, hostVars, itemVars>>

\* write / remove / flush take &mut self, so the handle has no iterator; the
\* thread then waits in write_access().
CallWriteAccess(h, batch) ==
    /\ h \in holders
    /\ pc[owner[h]] = "idle"
    /\ iter[h] = None
    /\ pc' = [pc EXCEPT ![owner[h]] = "wait_write"]
    /\ req' = [req EXCEPT ![owner[h]] = batch]
    /\ UNCHANGED <<store, owner, readers, writer, iter, yielded, holders, wrote, taken, seen,
                   treeVars, cacheVars, hostVars, itemVars>>

SharedWrite(h, key, value) == CallWriteAccess(h, key :> Insert(value))
SharedRemove(h, key)       == CallWriteAccess(h, key :> Delete)
SharedFlush(h, batch)      == CallWriteAccess(h, batch)

\* Mutant of WriteAcquire: the write guard is given while read guards are out.
WriteAcquire_despite_readers(t) ==
    /\ pc[t] = "wait_write"
    /\ writer = None
    /\ writer' = Some(t)
    /\ pc' = [pc EXCEPT ![t] = "writing"]
    /\ UNCHANGED <<store, owner, readers, req, iter, yielded, holders, wrote, taken, seen,
                   treeVars, cacheVars, hostVars, itemVars>>

\* RwLock::write returns: no guard of either kind is out.
WriteAcquire(t) ==
    /\ pc[t] = "wait_write"
    /\ readers = {}
    /\ writer = None
    /\ writer' = Some(t)
    /\ pc' = [pc EXCEPT ![t] = "writing"]
    /\ UNCHANGED <<store, owner, readers, req, iter, yielded, holders, wrote, taken, seen,
                   treeVars, cacheVars, hostVars, itemVars>>

\* The mutation is made on the inner store and the write guard is dropped.
WriteDone(t) ==
    /\ pc[t] = "writing"
    /\ store' = MockFlush(store, req[t])
    /\ writer' = None
    /\ pc' = [pc EXCEPT ![t] = "idle"]
    /\ req' = [req EXCEPT ![t] = <<>>]
    /\ wrote' = IF wrote = None THEN None ELSE Some(BatchExtend(wrote[1], req[t]))
    /\ seen' = IF seen = None THEN None
               ELSE Some([seen[1] EXCEPT !.by =
                       [k \in DOMAIN @ \cup DOMAIN req[t] |->
                           IF k \in DOMAIN req[t]
                           THEN [thread |-> t, op |-> req[t][k]]
                           ELSE @[k]]])
    /\ UNCHANGED <<owner, readers, iter, yielded, holders, taken,
                   treeVars, cacheVars, hostVars, itemVars>>

\* RwLock::write called by a thread that holds a read guard of the same lock
\* either never returns or panics; the panic unwinds the thread's iterators.
WritePanic(t) ==
    /\ pc[t] = "wait_write"
    /\ HoldsRead(t)
    /\ pc' = [pc EXCEPT ![t] = "panicked"]
    /\ req' = [req EXCEPT ![t] = <<>>]
    /\ iter' = [h \in Holders |-> IF owner[h] = t THEN None ELSE iter[h]]
    /\ yielded' = [h \in Holders |-> IF owner[h] = t THEN None ELSE yielded[h]]
    /\ readers' = {h \in readers : owner[h] # t}
    /\ UNCHANGED <<store, owner, writer, holders, wrote, taken, seen,
                   treeVars, cacheVars, hostVars, itemVars>>

\* SharedStore::share, Clone::clone: one more handle on the same lock.
Share(h, new) ==
    /\ h \in holders
    /\ new \notin holders
    /\ pc[owner[h]] = "idle"
    /\ holders' = holders \cup {new}
    /\ UNCHANGED <<store, owner, readers, writer, pc, req, iter, yielded, wrote, taken, seen,
                   treeVars, cacheVars, hostVars, itemVars>>

\* A handle is dropped by its thread, or by the unwinding of its thread. Its
\* iterator borrows it, so none is out.
DropHolder(h) ==
    /\ h \in holders
    /\ pc[owner[h]] \in {"idle", "panicked"}
    /\ iter[h] = None
    /\ holders' = holders \ {h}
    /\ UNCHANGED <<store, owner, readers, writer, pc, req, iter, yielded, wrote, taken, seen,
                   treeVars, cacheVars, hostVars, itemVars>>

\* Arc::try_unwrap: the inner value if this is the only strong reference.
try_unwrap(strong_count, inner) == IF strong_count = 1 THEN Some(inner) ELSE None

\* Mutant of shared_disassemble: the store is returned whatever the count.
shared_disassemble_never_panics(strong_count, inner) ==
    [result |-> "Ok", ret |-> Some(inner)]

\* SharedStore::disassemble. No write guard was dropped in a panic, so the
\* lock is not poisoned and into_inner gives the store.
shared_disassemble(strong_count, inner) ==
    LET lock == try_unwrap(strong_count, inner)
    IN  IF lock = None
        THEN [result |-> "Panic", ret |-> None]
        ELSE [result |-> "Ok", ret |-> Some(lock[1])]

\* disassemble(self): the handle is moved into the call and is gone after it
\* either way; a panic unwinds the thread's iterators.
Disassemble(h) ==
    /\ h \in holders
    /\ pc[owner[h]] = "idle"
    /\ iter[h] = None
    /\ LET r == shared_disassemble(Cardinality(holders), store)
       IN  /\ taken' = Some([holder |-> h, others |-> holders \ {h}, wrote |-> wrote,
                             result |-> r.result, ret |-> r.ret])
           /\ pc' = IF r.result = "Panic"
                    THEN [pc EXCEPT ![owner[h]] = "panicked"]
                    ELSE pc
           /\ iter' = IF r.result = "Panic"
                      THEN [g \in Holders |-> IF owner[g] = owner[h] THEN None ELSE iter[g]]
                      ELSE iter
           /\ yielded' = IF r.result = "Panic"
                         THEN [g \in Holders |->
                                  IF owner[g] = owner[h] THEN None ELSE yielded[g]]
                         ELSE yielded
           /\ readers' = IF r.result = "Panic"
                         THEN {g \in readers : owner[g] # owner[h]}
                         ELSE readers
    /\ holders' = holders \ {h}
    /\ UNCHANGED <<store, owner, writer, req, wrote, seen, treeVars, cacheVars, hostVars, itemVars>>

\* ---- locking model: a small store, several handles and threads ----

SharedKeys    == BytesOfLen(1, 1, MaxSharedByte)
SharedValues  == 1 .. MaxSharedValue
SharedOps     == {Insert(v) : v \in SharedValues} \cup {Delete}
SharedStores  == MapsUpTo(SharedKeys, SharedValues, Cardinality(SharedKeys))
SharedBatches == MapsUpTo(SharedKeys, SharedOps, MaxFlush)

\* SharedStore::new(store) and share(): every handle is on the same lock.
InitShared ==
    /\ store \in SharedStores
    /\ owner \in [Holders -> Threads]
    /\ readers = {}
    /\ writer = None
    /\ pc = [t \in Threads |-> "idle"]
    /\ req = [t \in Threads |-> <<>>]
    /\ iter = [h \in Holders |-> None]
    /\ yielded = [h \in Holders |-> None]
    /\ holders = Holders
    /\ wrote = None
    /\ taken = None
    /\ seen = None
    /\ TreeIdle /\ CacheIdle /\ HostIdle /\ ItemIdle

NextShared ==
    \/ \E h \in Holders, order \in Orders : SharedScan(h, None, None, order)
    \/ \E h \in Holders : SharedIterNext(h)
    \/ \E h \in Holders : SharedIterDrop(h)
    \/ \E h \in Holders, key \in SharedKeys, value \in SharedValues : SharedWrite(h, key, value)
    \/ \E h \in Holders, key \in SharedKeys : SharedRemove(h, key)
    \/ \E h \in Holders, batch \in SharedBatches : SharedFlush(h, batch)
    \/ \E t \in Threads : WriteAcquire(t)
    \/ \E t \in Threads : WriteDone(t)
    \/ \E t \in Threads : WritePanic(t)

SpecShared == InitShared /\ [][NextShared]_vars

\* The locking model with reads, keeping what was written and read.
InitVisible ==
    /\ store \in SharedStores
    /\ owner \in [Holders -> Threads]
    /\ readers = {}
    /\ writer = None
    /\ pc = [t \in Threads |-> "idle"]
    /\ req = [t \in Threads |-> <<>>]
    /\ iter = [h \in Holders |-> None]
    /\ yielded = [h \in Holders |-> None]
    /\ holders = Holders
    /\ wrote = None
    /\ taken = None
    /\ seen = Some([by |-> <<>>, read |-> None])
    /\ TreeIdle /\ CacheIdle /\ HostIdle /\ ItemIdle

NextVisible ==
    \/ NextShared
    \/ \E h \in Holders, key \in SharedKeys : SharedRead(h, key)

SpecVisible == InitVisible /\ [][NextVisible]_vars

\* SharedStore::new(store): one handle; the others come from share().
InitHolders ==
    /\ store \in SharedStores
    /\ owner \in [Holders -> Threads]
    /\ readers = {}
    /\ writer = None
    /\ pc = [t \in Threads |-> "idle"]
    /\ req = [t \in Threads |-> <<>>]
    /\ iter = [h \in Holders |-> None]
    /\ yielded = [h \in Holders |-> None]
    /\ holders = {1}
    /\ wrote = Some(<<>>)
    /\ taken = None
    /\ seen = None
    /\ TreeIdle /\ CacheIdle /\ HostIdle /\ ItemIdle

NextHolders ==
    \/ NextShared
    \/ \E h \in Holders, new \in Holders : Share(h, new)
    \/ \E h \in Holders : DropHolder(h)
    \/ \E h \in Holders : Disassemble(h)

SpecHolders == InitHolders /\ [][NextHolders]_vars

\* A running thread drops its iterators in the end, a write guard is given
\* to a waiting thread if the lock is free again and again, and a thread that
\* has the write guard finishes its mutation.
FairSpecShared ==
    /\ InitShared
    /\ [][NextShared]_vars
    /\ \A h \in Holders : WF_vars(SharedIterDrop(h))
    /\ \A t \in Threads : SF_vars(WriteAcquire(t))
    /\ \A t \in Threads : WF_vars(WriteDone(t))

\* ---- paging model: one handle, one thread, more keys than a page ----

PagingKeys == BytesOfLen(1, MaxKeyLen, MaxByte)
PagingMins == {None} \cup {Some(k) : k \in PagingKeys}
PagingMaxs == {None} \cup {Some(k) : k \in BytesOfLen(1, 1, MaxByte)}
PagingStores ==
    { [k \in PagingKeys \ absent |-> Len(k)] :
        absent \in {A \in SUBSET BytesOfLen(1, 1, MaxByte) : Cardinality(A) <= MaxAbsent} }

InitPaging ==
    /\ store \in PagingStores
    /\ owner = [h \in Holders |-> 1]
    /\ readers = {}
    /\ writer = None
    /\ pc = [t \in Threads |-> "idle"]
    /\ req = [t \in Threads |-> <<>>]
    /\ iter = [h \in Holders |-> None]
    /\ yielded = [h \in Holders |-> None]
    /\ holders = Holders
    /\ wrote = None
    /\ taken = None
    /\ seen = None
    /\ TreeIdle /\ CacheIdle /\ HostIdle /\ ItemIdle

NextPaging ==
    \/ \E min \in PagingMins, max \in PagingMaxs, order \in Orders :
          SharedScan(1, min, max, order)
    \/ SharedIterNext(1)
    \/ SharedIterDrop(1)

SpecPaging == InitPaging /\ [][NextPaging]_vars

\* ========================================================================
\*                             MOCK HOST STATE
\* ========================================================================

\* A u32 is kept at its width as two 16-bit halves <<high, low>>, of value
\* high * 2^16 + low.
HALF == 65536
U32(n) == <<n \div HALF, n % HALF>>
\* u32::MAX, the greatest value of next_iter_id.
U32_MAX == <<HALF - 1, HALF - 1>>
U32Lt(a, b) == a[1] < b[1] \/ (a[1] = b[1] /\ a[2] < b[2])

\* Bounds of the host-state model.
MaxHostByte  == 1   \* one-byte keys over 0 .. MaxHostByte
MaxHostValue == 2   \* values 1 .. MaxHostValue
MaxHostScans == 2   \* successful scans in a run

\* anyhow::Result
Ok(val)  == [ok |-> TRUE, val |-> val]
Err(msg) == [ok |-> FALSE, err |-> msg]

\* Mutant of checked_add: the sum wraps around.
wrapping_add(a, b) ==
    LET low == a[2] + b[2]
    IN  Some(<<(a[1] + b[1] + low \div HALF) % HALF, low % HALF>>)

\* u32::checked_add
checked_add(a, b) ==
    LET low  == a[2] + b[2]
        high == a[1] + b[1] + low \div HALF
    IN  IF high >= HALF THEN None ELSE Some(<<high, low % HALF>>)

\* HashMap::insert
MapInsert(map, key, value) ==
    [k \in DOMAIN map \cup {key} |-> IF k = key THEN value ELSE map[k]]

\* MockHostState::get_iterator_mut
get_iterator_mut(hs, id) ==
    IF id \in DOMAIN hs.iterators THEN Ok(hs.iterators[id])
    ELSE Err("can't find iterator")

\* HostState::read
host_read(hs, key) == [ret |-> Ok(MockRead(hs.store, key)), hs |-> hs]

\* Mutant of host_write: the iterators are kept.
host_write_keeps_iterators(hs, key, value) ==
    [ret |-> Ok(<<>>),
     hs  |-> [hs EXCEPT !.store = MockFlush(@, key :> Insert(value))]]

\* HostState::write: the store is written and every iterator is deleted.
host_write(hs, key, value) ==
    [ret |-> Ok(<<>>),
     hs  |-> [hs EXCEPT !.store = MockFlush(@, key :> Insert(value)),
                        !.iterators = <<>>]]

\* HostState::remove
host_remove(hs, key) ==
    [ret |-> Ok(<<>>),
     hs  |-> [hs EXCEPT !.store = MockFlush(@, key :> Delete),
                        !.iterators = <<>>]]

\* HostState::scan: the `?` returns before the counter is assigned and
\* before the iterator is inserted.
host_scan(hs, min, max, order) ==
    LET iterator_id == hs.next_iter_id
        sum == checked_add(iterator_id, U32(1))
    IN  IF sum = None
        THEN [ret |-> Err("Too many iterators"), hs |-> hs]
        ELSE [ret |-> Ok(iterator_id),
              hs  |-> [hs EXCEPT
                         !.next_iter_id = sum[1],
                         !.iterators = MapInsert(@, iterator_id,
                                          MockScan(hs.store, min, max, order))]]

\* HostState::next: Peekable::next hands out the head and advances.
host_next(hs, iterator_id) ==
    LET it == get_iterator_mut(hs, iterator_id)
    IN  IF ~it.ok
        THEN [ret |-> it, hs |-> hs]
        ELSE IF it.val = <<>>
        THEN [ret |-> Ok(None), hs |-> hs]
        ELSE [ret |-> Ok(Some(Head(it.val))),
              hs  |-> [hs EXCEPT !.iterators[iterator_id] = Tail(it.val)]]

\* HostState::peek: Peekable::peek hands out a copy of the head.
host_peek(hs, iterator_id) ==
    LET it == get_iterator_mut(hs, iterator_id)
    IN  IF ~it.ok
        THEN [ret |-> it, hs |-> hs]
        ELSE [ret |-> Ok(IF it.val = <<>> THEN None ELSE Some(Head(it.val))),
              hs  |-> hs]

\* ---- the host state's state machine ----

Host == [store |-> hostStore, iterators |-> iterators, next_iter_id |-> next_iter_id]

HostKeys   == BytesOfLen(1, 1, MaxHostByte)
HostValues == 1 .. MaxHostValue
HostMins   == {None} \cup {Some(k) : k \in HostKeys}
\* Ids given to next and peek: issued ones, and ones no scan has returned.
U32_MAX_LESS_1 == <<HALF - 1, HALF - 2>>
HostIds    == {U32(n) : n \in 0 .. MaxHostScans} \cup {U32_MAX_LESS_1, U32_MAX}
\* MockHostState::new() starts the counter at 0; after U32_MAX - 1 scans,
\* whose iterators a write has deleted, one id is left to give.
HostStartIds == {U32(0), U32_MAX_LESS_1}

InitHost ==
    /\ hostStore = <<>>
    /\ iterators = <<>>
    /\ next_iter_id \in HostStartIds
    /\ issued = <<>>
    /\ hostCall = None
    /\ TreeIdle /\ CacheIdle /\ SharedIdle /\ ItemIdle

HostCalled(op, arg, r) ==
    /\ hostStore' = r.hs.store
    /\ iterators' = r.hs.iterators
    /\ next_iter_id' = r.hs.next_iter_id
    /\ hostCall' = Some([op |-> op, arg |-> arg, ret |-> r.ret,
                         iterators |-> iterators, next_iter_id |-> next_iter_id,
                         issued |-> issued])
    /\ UNCHANGED <<treeVars, cacheVars, sharedVars, itemVars>>

HostRead(key) ==
    /\ HostCalled("read", key, host_read(Host, key))
    /\ UNCHANGED issued

HostWrite(key, value) ==
    /\ HostCalled("write", key, host_write(Host, key, value))
    /\ UNCHANGED issued

HostRemove(key) ==
    /\ HostCalled("remove", key, host_remove(Host, key))
    /\ UNCHANGED issued

HostScan(min, max, order) ==
    /\ Cardinality(DOMAIN issued) < MaxHostScans
    /\ \E r \in {host_scan(Host, min, max, order)} :
          /\ HostCalled("scan", <<min, max, order>>, r)
          /\ issued' = IF r.ret.ok
                       THEN MapInsert(issued, r.ret.val,
                                [min |-> min, max |-> max, order |-> order,
                                 consumed |-> 0])
                       ELSE issued

HostNext(id) ==
    \E r \in {host_next(Host, id)} :
        /\ HostCalled("next", id, r)
        /\ issued' = IF r.ret.ok /\ id \in DOMAIN issued
                     THEN IF r.ret.val # None
                          THEN [issued EXCEPT ![id].consumed = @ + 1]
                          ELSE issued
                     ELSE issued

HostPeek(id) ==
    /\ HostCalled("peek", id, host_peek(Host, id))
    /\ UNCHANGED issued

NextHost ==
    \/ \E key \in HostKeys : HostRead(key)
    \/ \E key \in HostKeys, value \in HostValues : HostWrite(key, value)
    \/ \E key \in HostKeys : HostRemove(key)
    \/ \E min \in HostMins, order \in Orders : HostScan(min, None, order)
    \/ \E id \in HostIds : HostNext(id)
    \/ \E id \in HostIds : HostPeek(id)

SpecHost == InitHost /\ [][NextHost]_vars

\* ========================================================================
\*                       PATH AND ITEM: update
\* ========================================================================

\* Bounds of the update model.
NumData    == 2   \* values 1 .. NumData of the stored type T
MaxUpdByte == 1   \* storage keys: one byte over 0 .. MaxUpdByte

DataValues == 1 .. NumData

\* The encodings are injective and differ from each other; bytes that are
\* not an encoding of the format fail to decode.
to_borsh_vec(data) == Ok(<<"borsh", data>>)
from_borsh_slice(bytes) ==
    IF bytes[1] = "borsh" THEN Ok(bytes[2]) ELSE Err("deserialize")
to_json(data) == Ok(<<"json", data>>)
from_json(bytes) ==
    IF bytes[1] = "json" THEN Ok(bytes[2]) ELSE Err("deserialize")

\* Option<Result<T>>::transpose
transpose(maybe) ==
    IF maybe = None THEN Ok(None)
    ELSE IF maybe[1].ok THEN Ok(Some(maybe[1].val)) ELSE maybe[1]

\* Path::may_load
path_may_load(st, storage_key) ==
    LET bytes == MockRead(st, storage_key)
    IN  transpose(IF bytes = None THEN None ELSE Some(from_borsh_slice(bytes[1])))

\* Path::save: the result and the store afterwards.
path_save(st, storage_key, data) ==
    LET bytes == to_borsh_vec(data)
    IN  IF ~bytes.ok THEN [ret |-> bytes, st |-> st]
        ELSE [ret |-> Ok(<<>>),
              st  |-> MockFlush(st, storage_key :> Insert(bytes.val))]

\* Path::remove
path_remove(st, storage_key) == MockFlush(st, storage_key :> Delete)

\* Mutant of path_update: the record is removed when the action fails.
path_update_removes_on_error(st, storage_key, action) ==
    LET loaded == path_may_load(st, storage_key)
    IN  IF ~loaded.ok
        THEN [ret |-> loaded, given |-> loaded, returned |-> None, st |-> st]
        ELSE LET maybe_data == action[loaded.val]
             IN  IF ~maybe_data.ok
                 THEN [ret |-> maybe_data, given |-> loaded,
                       returned |-> Some(maybe_data),
                       st |-> path_remove(st, storage_key)]
                 ELSE IF maybe_data.val # None
                 THEN LET saved == path_save(st, storage_key, maybe_data.val[1])
                      IN  [ret |-> IF saved.ret.ok THEN maybe_data ELSE saved.ret,
                           given |-> loaded, returned |-> Some(maybe_data),
                           st |-> saved.st]
                 ELSE [ret |-> maybe_data, given |-> loaded,
                       returned |-> Some(maybe_data),
                       st |-> path_remove(st, storage_key)]

\* Path::update: the result, what the action was given and what it
\* returned (None if it was not called), and the store afterwards.
path_update(st, storage_key, action) ==
    LET loaded == path_may_load(st, storage_key)
    IN  IF ~loaded.ok
        THEN [ret |-> loaded, given |-> loaded, returned |-> None, st |-> st]
        ELSE LET maybe_data == action[loaded.val]
             IN  IF ~maybe_data.ok
                 THEN [ret |-> maybe_data, given |-> loaded,
                       returned |-> Some(maybe_data), st |-> st]
                 ELSE IF maybe_data.val # None
                 THEN LET saved == path_save(st, storage_key, maybe_data.val[1])
                      IN  [ret |-> IF saved.ret.ok THEN maybe_data ELSE saved.ret,
                           given |-> loaded, returned |-> Some(maybe_data),
                           st |-> saved.st]
                 ELSE [ret |-> maybe_data, given |-> loaded,
                       returned |-> Some(maybe_data),
                       st |-> path_remove(st, storage_key)]

\* Item::may_load
item_may_load(st, key) ==
    LET bytes == MockRead(st, key)
    IN  transpose(IF bytes = None THEN None ELSE Some(from_json(bytes[1])))

\* Item::save
item_save(st, key, data) ==
    LET bytes == to_json(data)
    IN  IF ~bytes.ok THEN [ret |-> bytes, st |-> st]
        ELSE [ret |-> Ok(<<>>), st |-> MockFlush(st, key :> Insert(bytes.val))]

\* Item::remove
item_remove(st, key) == MockFlush(st, key :> Delete)

\* Item::update
item_update(st, key, action) ==
    LET loaded == item_may_load(st, key)
    IN  IF ~loaded.ok
        THEN [ret |-> loaded, given |-> loaded, returned |-> None, st |-> st]
        ELSE LET maybe_data == action[loaded.val]
             IN  IF ~maybe_data.ok
                 THEN [ret |-> maybe_data, given |-> loaded,
                       returned |-> Some(maybe_data), st |-> st]
                 ELSE IF maybe_data.val # None
                 THEN LET saved == item_save(st, key, maybe_data.val[1])
                      IN  [ret |-> IF saved.ret.ok THEN maybe_data ELSE saved.ret,
                           given |-> loaded, returned |-> Some(maybe_data),
                           st |-> saved.st]
                 ELSE [ret |-> maybe_data, given |-> loaded,
                       returned |-> Some(maybe_data),
                       st |-> item_remove(st, key)]

\* ---- the state machine of the update model ----

UpdKeys  == BytesOfLen(1, 1, MaxUpdByte)
\* What may_load hands to the action, and what the action may return.
Loaded   == {None} \cup {Some(d) : d \in DataValues}
Outcomes == {Err("action")} \cup {Ok(m) : m \in Loaded}
\* action: FnOnce(Option<T>) -> Result<Option<T>, E>
UpdateActions == [Loaded -> Outcomes]
\* The bytes someone may have written under a key: either encoding of a
\* value, or bytes that are no encoding.
StoredBytes ==
    {to_borsh_vec(d).val : d \in DataValues} \cup {to_json(d).val : d \in DataValues}
    \cup {<<"junk", 0>>}

InitItem ==
    /\ kvStore = <<>>
    /\ updCall = None
    /\ TreeIdle /\ CacheIdle /\ SharedIdle /\ HostIdle

UpdateCalled(helper, key, r) ==
    /\ kvStore' = r.st
    /\ updCall' = Some([helper |-> helper, key |-> key, store |-> kvStore,
                        given |-> r.given, returned |-> r.returned, ret |-> r.ret])
    /\ UNCHANGED <<treeVars, cacheVars, sharedVars, hostVars>>

PathUpdate(storage_key, action) ==
    UpdateCalled("Path", storage_key, path_update(kvStore, storage_key, action))

ItemUpdate(key, action) ==
    UpdateCalled("Item", key, item_update(kvStore, key, action))

\* Storage::write by the owner of the store: `store` is a &mut dyn Storage
\* of the caller.
StoreWrite(key, bytes) ==
    /\ kvStore' = MockFlush(kvStore, key :> Insert(bytes))
    /\ updCall' = None
    /\ UNCHANGED <<treeVars, cacheVars, sharedVars, hostVars>>

NextItem ==
    \/ \E key \in UpdKeys, action \in UpdateActions : PathUpdate(key, action)
    \/ \E key \in UpdKeys, action \in UpdateActions : ItemUpdate(key, action)
    \/ \E key \in UpdKeys, bytes \in StoredBytes : StoreWrite(key, bytes)

SpecItem == InitItem /\ [][NextItem]_vars

\* ========================================================================
\*                                 CLAIMS
\* ========================================================================

\* ---- helpers of the tree claims ----

InsertedByLast == {i \in 1 .. Len(lastBatch) : IsInsert(lastBatch[i][2])}
DeletedByLast ==
    {lastBatch[i][1] : i \in {j \in 1 .. Len(lastBatch) :
                                ~IsInsert(lastBatch[j][2]) /\ lastBatch[j][1] \in DOMAIN prevLive}}

MembershipOk(k, v) ==
    LET p == prove(Storage, k, version)
    IN  /\ p.kind = "Membership"
        /\ root # None
        /\ FoldMembership(p, k, v) = root[1]

NonMembershipOk(k) ==
    LET p == prove(Storage, k, version)
    IN  /\ p.kind = "NonMembership"
        /\ root_hash(Storage, version) # None
        /\ FoldNonMembership(p, k) = root_hash(Storage, version)[1]

\* The batch that inserts all of the bindings, sorted by key hash.
BatchOf(bindings) ==
    LET ks == SortedKeys(DOMAIN bindings)
    IN  [i \in 1 .. Len(ks) |-> <<ks[i], Insert(bindings[ks[i]])>>]

ChildrenOf(node) ==
    (IF node.left_child # None THEN {<<TRUE, node.left_child[1]>>} ELSE {})
    \cup (IF node.right_child # None THEN {<<FALSE, node.right_child[1]>>} ELSE {})

InternalKeys(ver) ==
    {key \in Reachable(Storage, ver) : ~is_leaf(nodes[key])}

ChildNode(key, c) == nodes[<<c[2].version, extend_one_bit(key[2], c[1])>>]

IsNoOpBatch(bindings, batch) ==
    \A i \in 1 .. Len(batch) :
        IF IsInsert(batch[i][2])
        THEN batch[i][1] \in DOMAIN bindings /\ bindings[batch[i][1]] = batch[i][2][2]
        ELSE batch[i][1] \notin DOMAIN bindings

\* C2: after an apply at version V whose batch inserts key hash k with value
\* hash v, prove(k, V) is a Membership proof, and folding the leaf hash of
\* (k, v) with its sibling hashes along the bits of k gives the root hash
\* that apply returned.
C2_InsertThenProve ==
    \A i \in InsertedByLast : MembershipOk(lastBatch[i][1], lastBatch[i][2][2])

C2_Witness ==
    /\ version = 2
    /\ \E i \in InsertedByLast :
          /\ MembershipOk(lastBatch[i][1], lastBatch[i][2][2])
          /\ Len(prove(Storage, lastBatch[i][1], version).sibling_hashes) = 3
          /\ None \in {prove(Storage, lastBatch[i][1], version).sibling_hashes[j] : j \in 1 .. 3}

\* C3: for every key hash k that is not live at version V, the tree having
\* held keys before the apply at V (which may have deleted all of them),
\* prove(k, V) is a NonMembership proof whose folded hash is the root at V.
C3_DeleteThenProve ==
    (version >= 1 /\ prevLive # <<>>) =>
        \A k \in KeyHashes \ DOMAIN live : NonMembershipOk(k)

\* C3, on the versions at which the tree is not empty: the proof is a
\* NonMembership proof that folds to the root.
C3_NonEmptyTree ==
    (version >= 1 /\ live # <<>>) =>
        \A k \in KeyHashes \ DOMAIN live : NonMembershipOk(k)

\* C4: the root hash is a function of the live bindings: whatever the
\* sequence of applies, it is the root that one apply of exactly these
\* bindings to an empty tree returns.
C4_Determinism ==
    root = apply(EmptyStorage, 0, 1, BatchOf(live)).root

C4_Witness ==
    /\ version = 2
    /\ DeletedByLast # {}
    /\ InsertedByLast # {}
    /\ Cardinality(DOMAIN live) >= 3
    /\ root = apply(EmptyStorage, 0, 1, BatchOf(live)).root

\* C5: after apply(old_version, new_version, batch), every node reachable
\* from the root at old_version and not from the root at new_version has the
\* orphans entry (new_version, its version, its path).
C5_OrphanAccounting ==
    version >= 1 =>
        \A key \in Reachable(Storage, version - 1) \ Reachable(Storage, version) :
            <<version, key[1], key[2]>> \in orphans

\* C6: in the tree reachable from the latest root every internal node has a
\* child, and none has exactly one child that is a leaf.
C6_Collapse ==
    \A key \in InternalKeys(version) :
        LET cs == ChildrenOf(nodes[key])
        IN  /\ cs # {}
            /\ ~(Cardinality(cs) = 1 /\ \A c \in cs : is_leaf(ChildNode(key, c)))

C6_Witness ==
    /\ version = 2
    /\ DeletedByLast # {}
    /\ \E key \in InternalKeys(version) :
          LET cs == ChildrenOf(nodes[key])
          IN  Cardinality(cs) = 1 /\ \A c \in cs : ~is_leaf(ChildNode(key, c))
    /\ Cardinality(Reachable(Storage, version)) < Cardinality(Reachable(Storage, version - 1))

\* C10: an apply whose inserts all overwrite a key with its value hash and
\* whose deletes all target absent keys returns the root hash of old_version.
C10_NoOpReturnsPriorRoot ==
    (version >= 1 /\ IsNoOpBatch(prevLive, lastBatch)) =>
        root = root_hash(Storage, version - 1)

C10_Witness ==
    /\ version = 2
    /\ IsNoOpBatch(prevLive, lastBatch)
    /\ InsertedByLast # {}
    /\ \E i \in 1 .. Len(lastBatch) : ~IsInsert(lastBatch[i][2])
    /\ root # None
    /\ root = root_hash(Storage, 1)


\* C1: CacheStore.scan(min, max, order) yields the records that a scan with
\* the same bounds and order yields on the store obtained by applying the
\* pending batch to the base store.
C1_MergeLaw ==
    lastScan # None =>
        lastScan[1].records =
            MockScan(MockFlush(base, pending), lastScan[1].min, lastScan[1].max,
                     lastScan[1].order)

\* A descending scan with both bounds given that meets a pending delete of a
\* base key, a pending overwrite and a record of the base alone.
C1_Witness ==
    /\ lastScan # None
    /\ lastScan[1].order = "Descending"
    /\ lastScan[1].min # None /\ lastScan[1].max # None
    /\ Len(lastScan[1].records) >= 1
    /\ \E k \in DOMAIN pending \cap DOMAIN base :
          ~IsInsert(pending[k]) /\ InRange(k, lastScan[1].min, lastScan[1].max)
    /\ \E k \in DOMAIN pending :
          IsInsert(pending[k]) /\ InRange(k, lastScan[1].min, lastScan[1].max)
    /\ \E k \in DOMAIN base \ DOMAIN pending :
          InRange(k, lastScan[1].min, lastScan[1].max)

\* C1, the bounds the claim names: min > max, and min = max.
C1_WitnessCrossedBounds ==
    /\ lastScan # None
    /\ lastScan[1].min # None /\ lastScan[1].max # None
    /\ BytesLt(lastScan[1].max[1], lastScan[1].min[1])
    /\ pending # <<>> /\ base # <<>>


\* C7: once the iterator of SharedStore.scan(min, max, order) has returned
\* None, with no write in between, the records it handed out are the records
\* of one base.scan(min, max, order), in the same order.
C7_PagingEqualsFullScan ==
    \A h \in DOMAIN yielded :
        (yielded[h] # None /\ yielded[h][1].ended) =>
            yielded[h][1].records =
                MockScan(store, yielded[h][1].min, yielded[h][1].max, yielded[h][1].order)

\* C8: the iterator of SharedStore.scan holds no read guard between two
\* pages: whenever the iterator exists and is not fetching, its holder has
\* no read guard out.
C8_NoGuardBetweenPages ==
    \A h \in DOMAIN iter : iter[h] # None => h \notin readers

\* C9: while an iterator is alive and not exhausted, a thread that called
\* write, remove or flush through another handle and waits for the write
\* guard gets it in the end and completes the mutation.
C9_WriteEventuallyCompletes ==
    \A t \in Threads :
        (/\ pc[t] = "wait_write"
         /\ \E h \in Holders : iter[h] # None /\ ~yielded[h][1].ended)
            ~> (pc[t] = "idle")


\* ---- helpers of the claims on what an apply writes ----

\* The orphans entries the last apply added: the versions strictly increase,
\* so they are the entries orphaned since the latest version.
OrphansAdded == {o \in orphans : o[1] = version}

NodesAtVersion(ver) == {key \in DOMAIN nodes : key[1] = ver}

NoOpOnNonEmptyTree ==
    version >= 1 /\ prevLive # <<>> /\ IsNoOpBatch(prevLive, lastBatch)

\* C11, as stated: a no-op apply on a non-empty tree writes no node and adds
\* no orphans entry.
C11_NoOpWritesNothing ==
    NoOpOnNonEmptyTree => (written = <<>> /\ OrphansAdded = {})

\* C11, amended: a no-op apply on a non-empty tree makes exactly one write,
\* the unchanged root node under (new_version, root path), and adds exactly
\* one orphans entry, that of the old root.
C11_NoOpWritesRootOnly ==
    NoOpOnNonEmptyTree =>
        /\ written = << <<version, ROOT_BITS>> >>
        /\ nodes[<<version, ROOT_BITS>>] = nodes[<<version - 1, ROOT_BITS>>]
        /\ Cardinality(OrphansAdded) = 1
        /\ <<version, version - 1, ROOT_BITS>> \in orphans

C11_Witness ==
    /\ NoOpOnNonEmptyTree
    /\ version = 2
    /\ Len(lastBatch) = 2
    /\ \A i \in 1 .. Len(lastBatch) : IsInsert(lastBatch[i][2])
    /\ written = << <<2, ROOT_BITS>> >>
    /\ ~is_leaf(nodes[<<2, ROOT_BITS>>])

\* C12: after a no-op apply(old_version, new_version, batch) on a non-empty
\* tree the only orphans entry added is (new_version, old_version, root path)
\* and the only node stored under new_version is the root node.
C12_NoOpRootOnly ==
    NoOpOnNonEmptyTree =>
        /\ OrphansAdded = {<<version, version - 1, ROOT_BITS>>}
        /\ NodesAtVersion(version) = {<<version, ROOT_BITS>>}

C12_Witness ==
    /\ NoOpOnNonEmptyTree
    /\ version = 2
    /\ Cardinality(DOMAIN prevLive) >= 3
    /\ \E i \in 1 .. Len(lastBatch) : IsInsert(lastBatch[i][2])
    /\ \E i \in 1 .. Len(lastBatch) : ~IsInsert(lastBatch[i][2])
    /\ NodesAtVersion(2) = {<<2, ROOT_BITS>>}
    /\ Cardinality(NodesAtVersion(1)) >= 5


\* C13: when the batch of apply(old_version, new_version, batch) deletes all
\* the keys present at old_version, apply returns None, no root node exists
\* at new_version, and every node that was reachable from the root at
\* old_version has the orphans entry (new_version, its version, its path).
C13_DeleteAll ==
    (version >= 1 /\ prevLive # <<>> /\ live = <<>>) =>
        /\ root = None
        /\ <<version, ROOT_BITS>> \notin DOMAIN nodes
        /\ root_hash(Storage, version) = None
        /\ \A key \in Reachable(Storage, version - 1) :
              <<version, key[1], key[2]>> \in orphans

C13_Witness ==
    /\ version = 2 /\ live = <<>>
    /\ Cardinality(DOMAIN prevLive) = 4
    /\ Len(lastBatch) = 4
    /\ root = None
    /\ Cardinality(Reachable(Storage, 1)) >= 7
    /\ Cardinality(OrphansAdded) >= 7


\* C14: every node an apply(old_version, new_version, batch) call writes to
\* the nodes keyspace is written under new_version, and under no other.
C14_WritesCarryNewVersion ==
    \A i \in 1 .. Len(written) : written[i][1] = version

C14_Witness ==
    /\ version = 2
    /\ Len(written) >= 4
    /\ \A i \in 1 .. Len(written) : written[i][1] = 2
    /\ \E i \in 1 .. Len(written) : <<1, written[i][2]>> \in DOMAIN nodes
    /\ \E i \in 1 .. Len(written) : <<1, written[i][2]>> \notin DOMAIN nodes
    /\ InsertedByLast # {} /\ DeletedByLast # {}


\* The internal nodes reachable from the root of any version so far.
AllInternalKeys ==
    UNION {InternalKeys(ver) : ver \in 0 .. version}

ChildKey(key, c) == <<c[2].version, extend_one_bit(key[2], c[1])>>

ChildIsSound(key, c) ==
    /\ ChildKey(key, c) \in DOMAIN nodes
    /\ NodeHash(nodes[ChildKey(key, c)]) = c[2].hash
    /\ c[2].version <= key[1]

\* C15: for every internal node stored at (v, p) that is reachable from a
\* root, and every child descriptor {version: cv, hash: ch} on side b of it,
\* a node is stored at (cv, p extended by b), its hash is ch, and cv <= v.
C15_ChildIntegrity ==
    \A key \in AllInternalKeys :
        \A c \in ChildrenOf(nodes[key]) : ChildIsSound(key, c)

C15_Witness ==
    /\ version = 2
    /\ \E key \in InternalKeys(2) :
          /\ key[1] = 2
          /\ \E c \in ChildrenOf(nodes[key]) : c[2].version = 1 /\ ChildIsSound(key, c)
          /\ \E c \in ChildrenOf(nodes[key]) : c[2].version = 2 /\ ChildIsSound(key, c)
    /\ DeletedByLast # {}


\* The bindings held by the leaves reachable from the root at ver.
LeafBindings(ver) ==
    {<<nodes[key].key_hash, nodes[key].value_hash>> :
        key \in {k \in Reachable(Storage, ver) : is_leaf(nodes[k])}}

\* C16: after apply(old_version, new_version, batch) returned r,
\* root_hash(new_version) is r; it is Some(h) exactly when keys are live
\* after the batch, and then the node stored at (new_version, root path) is
\* the root: its hash is h and its leaves are the live bindings.
C16_RootPresence ==
    /\ root_hash(Storage, version) = root
    /\ (root # None) <=> (live # <<>>)
    /\ root # None =>
          /\ <<version, ROOT_BITS>> \in DOMAIN nodes
          /\ NodeHash(nodes[<<version, ROOT_BITS>>]) = root[1]
          /\ LeafBindings(version) = {<<k, live[k]>> : k \in DOMAIN live}

C16_Witness ==
    /\ version = 2
    /\ root # None
    /\ root_hash(Storage, 2) = root
    /\ root_hash(Storage, 1) # root
    /\ DeletedByLast # {} /\ InsertedByLast # {}
    /\ Cardinality(LeafBindings(2)) >= 3


\* ---- helpers of the claims on the shape of a proof ----

\* The keys of the nodes on the path of key_hash, from the node stored at
\* `key` down to the node where the path ends: a leaf, or an internal node
\* with no child on the key's side.
RECURSIVE PathFrom(_, _)
PathFrom(key, key_hash) ==
    LET node  == nodes[key]
        bit   == bit_at_index(key_hash, Len(key[2]))
        child == IF bit = 0 THEN node.left_child ELSE node.right_child
    IN  IF is_leaf(node) \/ child = None
        THEN <<key>>
        ELSE <<key>> \o PathFrom(<<child[1].version, Append(key[2], bit)>>, key_hash)

PathOf(key_hash) == PathFrom(<<version, ROOT_BITS>>, key_hash)

\* The hash of the sibling of the node at depth d >= 1 on a path of
\* key_hash: the child on the other side in the node at depth d - 1.
SiblingAtDepth(path, key_hash, d) ==
    LET parent  == nodes[path[d]]
        sibling == IF bit_at_index(key_hash, d - 1) = 0
                   THEN parent.right_child ELSE parent.left_child
    IN  IF sibling = None THEN None ELSE Some(sibling[1].hash)

HasRoot == <<version, ROOT_BITS>> \in DOMAIN nodes

SiblingsOf(key_hash) == prove(Storage, key_hash, version).sibling_hashes

\* C17, as stated: sibling_hashes is ordered from the root toward the leaf:
\* its first element is the sibling of the root's child on the key's path
\* and its last element the sibling of the deepest node reached.
C17_SiblingsRootToLeaf ==
    HasRoot =>
        \A k \in KeyHashes :
            LET path  == PathOf(k)
                depth == Len(path) - 1
                sh    == SiblingsOf(k)
            IN  depth >= 1 =>
                    /\ sh[1] = SiblingAtDepth(path, k, 1)
                    /\ sh[Len(sh)] = SiblingAtDepth(path, k, depth)

\* C17, amended: sibling_hashes is ordered from the leaf toward the root:
\* its first element is the sibling of the deepest node reached and its last
\* element the sibling of the root's child on the key's path.
C17_SiblingsLeafToRoot ==
    HasRoot =>
        \A k \in KeyHashes :
            LET path  == PathOf(k)
                depth == Len(path) - 1
                sh    == SiblingsOf(k)
            IN  depth >= 1 =>
                    /\ sh[1] = SiblingAtDepth(path, k, depth)
                    /\ sh[Len(sh)] = SiblingAtDepth(path, k, 1)

C17_Witness ==
    /\ version = 2 /\ HasRoot
    /\ \E k \in DOMAIN live :
          LET path == PathOf(k)
              sh   == SiblingsOf(k)
          IN  /\ Len(path) = 4
              /\ SiblingAtDepth(path, k, 1) # SiblingAtDepth(path, k, 3)
              /\ SiblingAtDepth(path, k, 1) # None /\ SiblingAtDepth(path, k, 3) # None
              /\ sh[1] = SiblingAtDepth(path, k, 3)
              /\ sh[3] = SiblingAtDepth(path, k, 1)

\* C18: sibling_hashes is ordered bottom-up: it has one element per level
\* down to the node where the walk stopped, the element at position i being
\* the sibling hash at depth (length - i + 1), None for an absent sibling.
C18_SiblingsBottomUp ==
    HasRoot =>
        \A k \in KeyHashes :
            LET path  == PathOf(k)
                depth == Len(path) - 1
                proof == prove(Storage, k, version)
            IN  /\ proof.kind \in {"Membership", "NonMembership"}
                /\ Len(proof.sibling_hashes) = depth
                /\ \A i \in 1 .. depth :
                      proof.sibling_hashes[i] = SiblingAtDepth(path, k, depth - i + 1)

C18_Witness ==
    /\ version = 2 /\ HasRoot
    /\ \E k \in DOMAIN live :
          LET sh == SiblingsOf(k)
          IN  /\ Len(PathOf(k)) = 4
              /\ Len(sh) = 3
              /\ sh[1] # None /\ sh[2] = None /\ sh[3] # None
              /\ sh[3] = SiblingAtDepth(PathOf(k), k, 1)
    /\ \E k \in KeyHashes \ DOMAIN live :
          /\ Len(SiblingsOf(k)) = 2
          /\ prove(Storage, k, version).kind = "NonMembership"


\* The shape C19 gives to the proof of key_hash, from the node where its
\* path ends.
ProofShapeOk(key_hash) ==
    LET path  == PathOf(key_hash)
        stop  == nodes[path[Len(path)]]
        bit   == bit_at_index(key_hash, Len(path) - 1)
        other == IF bit = 0 THEN stop.right_child ELSE stop.left_child
        proof == prove(Storage, key_hash, version)
    IN  IF ~is_leaf(stop)
        THEN /\ proof.kind = "NonMembership"
             /\ other # None
             /\ proof.node[1] =
                    [type |-> "Internal",
                     left_hash  |-> IF bit = 0 THEN None ELSE Some(other[1].hash),
                     right_hash |-> IF bit = 0 THEN Some(other[1].hash) ELSE None]
        ELSE IF stop.key_hash # key_hash
        THEN /\ proof.kind = "NonMembership"
             /\ proof.node[1] = [type |-> "Leaf", key_hash |-> stop.key_hash,
                                 value_hash |-> stop.value_hash]
        ELSE proof.kind = "Membership"

\* C19: a walk of prove that reaches an internal node with no child on the
\* key's side gives NonMembership with node = Internal, None on the key's
\* side and the present sibling's hash on the other; a walk that reaches a
\* leaf of another key hash gives NonMembership with node = that Leaf; a
\* walk that reaches the leaf of the queried key hash gives Membership.
C19_WitnessShape ==
    HasRoot => \A k \in KeyHashes : ProofShapeOk(k)

C19_Witness ==
    /\ version = 2 /\ HasRoot
    /\ \E k \in KeyHashes \ DOMAIN live :
          /\ prove(Storage, k, version).kind = "NonMembership"
          /\ prove(Storage, k, version).node[1].type = "Internal"
          /\ prove(Storage, k, version).node[1].left_hash = None
          /\ ProofShapeOk(k)
    /\ \E k \in KeyHashes \ DOMAIN live :
          /\ prove(Storage, k, version).kind = "NonMembership"
          /\ prove(Storage, k, version).node[1].type = "Leaf"
          /\ Len(SiblingsOf(k)) >= 1
          /\ ProofShapeOk(k)
    /\ \E k \in DOMAIN live : prove(Storage, k, version).kind = "Membership"


\* C20: CacheStore.read(k) returns the pending entry when the pending batch
\* has one for k (Some(v) for Insert(v), None for Delete) whatever the base
\* holds, and base.read(k) otherwise, after any sequence of write, remove
\* and flush calls.
C20_ReadOverlay ==
    lastRead # None =>
        LET k == lastRead[1].key
        IN  IF k \in DOMAIN pending
            THEN /\ IsInsert(pending[k]) => lastRead[1].value = Some(pending[k][2])
                 /\ ~IsInsert(pending[k]) => lastRead[1].value = None
            ELSE /\ k \in DOMAIN base => lastRead[1].value = Some(base[k])
                 /\ k \notin DOMAIN base => lastRead[1].value = None

\* A read of a key the base holds and the pending batch deletes, next to a
\* pending insert of another key.
C20_Witness ==
    /\ lastRead # None
    /\ lastRead[1].key \in DOMAIN base
    /\ lastRead[1].key \in DOMAIN pending
    /\ ~IsInsert(pending[lastRead[1].key])
    /\ lastRead[1].value = None
    /\ \E k \in DOMAIN pending \cap DOMAIN base :
          IsInsert(pending[k]) /\ pending[k][2] # base[k]


\* The overlay as it was just before the commit or consume just made.
BeforeCall == lastCall[1]

\* The views of two overlays agree on every key, bounds and order.
SameView(base1, pending1, base2, pending2) ==
    /\ \A key \in CacheKeys :
          CacheRead(base1, pending1, key) = CacheRead(base2, pending2, key)
    /\ \A min \in CacheBounds, max \in CacheBounds, order \in Orders :
          CacheScan(base1, pending1, min, max, order)
              = CacheScan(base2, pending2, min, max, order)

\* C21: commit() leaves the pending batch empty and the overlay's reads and
\* scans as they were just before it, the base now holding that merged view;
\* consume() returns the base store in that same content.
C21_CommitKeepsView ==
    /\ (lastCall # None /\ lastCall[1].op = "commit") =>
          /\ pending = <<>>
          /\ SameView(base, pending, BeforeCall.base, BeforeCall.pending)
          /\ SameView(base, <<>>, BeforeCall.base, BeforeCall.pending)
    /\ (lastCall # None /\ lastCall[1].op = "consume") =>
          SameView(lastCall[1].ret[1], <<>>, BeforeCall.base, BeforeCall.pending)

\* A commit that brought an insert and a delete of the pending batch to the
\* base.
C21_Witness ==
    /\ lastCall # None
    /\ lastCall[1].op = "commit"
    /\ \E k1 \in DOMAIN BeforeCall.pending, k2 \in DOMAIN BeforeCall.pending :
          /\ IsInsert(BeforeCall.pending[k1])
          /\ k1 \notin DOMAIN BeforeCall.base
          /\ BeforeCall.pending[k2] = Delete
          /\ k2 \in DOMAIN BeforeCall.base
          /\ k1 \in DOMAIN base
          /\ k2 \notin DOMAIN base


\* The merge of two batches in which the second one's op wins on every key
\* present in both.
MergeLaterWins(p1, p2) ==
    [k \in DOMAIN p1 \cup DOMAIN p2 |-> IF k \notin DOMAIN p2 THEN p1[k] ELSE p2[k]]

IsFlushed == IF lastCall = None THEN FALSE ELSE lastCall[1].op = "flush"

\* C22: with P1 pending and P2 flushed after it, pending is the merge of P1
\* and P2 in which P2 wins, and committing P1 and then P2 to the base gives
\* the content that committing that merge once gives.
C22_FlushAssociative ==
    IsFlushed =>
        LET p1     == lastCall[1].pending
            p2     == lastCall[1].ret[1]
            merged == MergeLaterWins(p1, p2)
        IN  /\ pending = merged
            /\ commit(commit(base, p1).base, BatchExtend(<<>>, p2)).base
                  = commit(base, merged).base
            /\ commit(commit(base, p1).base, BatchExtend(<<>>, p2)).base
                  = commit(base, pending).base

\* Two flushes that disagree on a key the base holds: one inserts, the other
\* deletes.
C22_Witness ==
    /\ IsFlushed
    /\ \E k \in DOMAIN lastCall[1].pending \cap DOMAIN lastCall[1].ret[1] :
          /\ k \in DOMAIN base
          /\ IsInsert(lastCall[1].pending[k])
          /\ lastCall[1].ret[1][k] = Delete
    /\ \E k \in DOMAIN lastCall[1].pending \cap DOMAIN lastCall[1].ret[1] :
          /\ lastCall[1].pending[k] = Delete
          /\ IsInsert(lastCall[1].ret[1][k])


LastCallIs(op) == IF lastCall = None THEN FALSE ELSE lastCall[1].op = op

\* C23: the base holds the content it had at construction or at the last
\* commit in every state but the one a consume leaves, whatever was written,
\* removed, flushed, read or scanned through the overlay; disassemble returns
\* the base in that content with the pending batch as it was, and recycle
\* returns the base in that content.
C23_OverlayIsolation ==
    /\ ~LastCallIs("consume") => base = snapshot
    /\ LastCallIs("disassemble") =>
          /\ lastCall[1].ret[1].base = snapshot
          /\ lastCall[1].ret[1].pending = lastCall[1].pending
    /\ LastCallIs("recycle") => lastCall[1].ret[1] = snapshot

\* A disassemble of an overlay whose pending batch, an insert and a delete,
\* would have changed the base.
C23_Witness ==
    /\ LastCallIs("disassemble")
    /\ MockFlush(lastCall[1].base, lastCall[1].pending) # lastCall[1].base
    /\ \E k \in DOMAIN lastCall[1].pending : IsInsert(lastCall[1].pending[k])
    /\ \E k \in DOMAIN lastCall[1].pending : lastCall[1].pending[k] = Delete


\* The positions in the write log of the internal nodes written.
InternalWrites == {i \in 1 .. Len(written) : ~is_leaf(nodes[written[i]])}

\* The child is stored when position i of the write log is written: it was
\* written earlier in this apply, or it was stored before the apply.
StoredBefore(i, ck) ==
    /\ ck \in DOMAIN nodes
    /\ ck[1] = version => \E j \in 1 .. i - 1 : written[j] = ck

\* C24: within an apply, when an internal node is written every node its
\* child descriptors refer to is already stored, and the root at the new
\* version is the last node written: no other node is written after it.
C24_ChildrenWrittenFirst ==
    /\ \A i \in InternalWrites :
          \A c \in ChildrenOf(nodes[written[i]]) :
              StoredBefore(i, ChildKey(written[i], c))
    /\ root # None =>
          /\ written # <<>>
          /\ written[Len(written)] = <<version, ROOT_BITS>>
          /\ \A i \in 1 .. Len(written) :
                written[i] = <<version, ROOT_BITS>> =>
                    \A j \in i .. Len(written) : written[j] = <<version, ROOT_BITS>>

\* An apply that wrote an internal node below the root with a child written
\* by the same apply and a child left from the version before.
C24_Witness ==
    /\ version = 2
    /\ root # None
    /\ \E i \in InternalWrites :
          /\ written[i][2] # ROOT_BITS
          /\ \E c \in ChildrenOf(nodes[written[i]]) : c[2].version = 2
          /\ \E c \in ChildrenOf(nodes[written[i]]) : c[2].version = 1
    /\ \E i \in InternalWrites :
          \A c \in ChildrenOf(nodes[written[i]]) : c[2].version = 2


\* The storage after the step.
StorageAfter == [nodes |-> nodes', orphans |-> orphans', writes |-> <<>>, err |-> FALSE]

\* What a step keeps of the versions stored before it.
HistoryKept ==
    /\ \A key \in DOMAIN nodes : key \in DOMAIN nodes' /\ nodes'[key] = nodes[key]
    /\ orphans \subseteq orphans'
    /\ \A ver \in 0 .. version :
          /\ root_hash(StorageAfter, ver) = root_hash(Storage, ver)
          /\ \A k \in KeyHashes : prove(StorageAfter, k, ver) = prove(Storage, k, ver)

DueOrphans(entries, up_to_version) ==
    {o \in entries : IF up_to_version = None THEN TRUE ELSE o[1] <= up_to_version[1]}

\* C26: prune(up_to_version) returns successfully, having removed the node
\* of every orphans entry orphaned at or before up_to_version (of every
\* entry when it is None) and the entry, and nothing else.
C26_PruneRemovesOrphans ==
    pruned # None =>
        LET before == pruned[1]
            due    == DueOrphans(before.orphans, before.up_to_version)
            gone   == {<<o[2], o[3]>> : o \in due}
        IN  /\ before.result = "Ok"
            /\ orphans = before.orphans \ due
            /\ DOMAIN nodes = DOMAIN before.nodes \ gone
            /\ \A key \in DOMAIN nodes : nodes[key] = before.nodes[key]


\* The content holds what was written: the value of the last insert of a
\* key, and no value for a key whose last op was a delete.
HoldsWrites(content, ops) ==
    \A k \in DOMAIN ops :
        IF IsInsert(ops[k])
        THEN k \in DOMAIN content /\ content[k] = ops[k][2]
        ELSE k \notin DOMAIN content

\* C27: disassemble() panics when another handle of the same store is alive;
\* called on the only handle it returns the store, which holds every write
\* made through any handle.
C27_DisassembleSoleHolder ==
    taken # None =>
        /\ taken[1].others # {} => taken[1].result = "Panic"
        /\ taken[1].others = {} =>
              /\ taken[1].result = "Ok"
              /\ taken[1].ret # None
              /\ HoldsWrites(taken[1].ret[1], taken[1].wrote[1])

\* The last handle returned the store after a first disassemble had
\* panicked on a shared one; an insert and a delete had been written.
C27_Witness ==
    /\ taken # None
    /\ taken[1].result = "Ok"
    /\ \E t \in Threads : pc[t] = "panicked"
    /\ \E k \in DOMAIN taken[1].wrote[1] : IsInsert(taken[1].wrote[1][k])
    /\ \E k \in DOMAIN taken[1].wrote[1] : taken[1].wrote[1][k] = Delete

\* A disassemble that panicked because the store was shared.
C27_WitnessPanic ==
    /\ taken # None
    /\ taken[1].others # {}
    /\ taken[1].result = "Panic"


\* The first Len(bits) bits of the key hash are the bit path.
HasPrefix(key_hash, bits) ==
    \A i \in 1 .. Len(bits) : bit_at_index(key_hash, i - 1) = bits[i]

\* The bit path q is at or below the bit path p.
IsBelow(q, p) == Len(p) <= Len(q) /\ SubSeq(q, 1, Len(p)) = p

\* The ops of the last batch that go to the subtree at the bit path.
SubBatch(bits) == {i \in 1 .. Len(lastBatch) : HasPrefix(lastBatch[i][1], bits)}

\* The internal nodes of the old version that the last apply visited: the
\* root, and the nodes whose sub-batch was not empty.
VisitedInternal ==
    {key \in InternalKeys(version - 1) : key[2] = ROOT_BITS \/ SubBatch(key[2]) # {}}

SideOf(node, is_left) == IF is_left THEN node.left_child ELSE node.right_child

\* The visited node was written again as an internal node.
Rewritten(key) ==
    /\ <<version, key[2]>> \in DOMAIN nodes
    /\ ~is_leaf(nodes[<<version, key[2]>>])

\* Nothing was written and nothing marked as orphaned at or below the path.
UntouchedBelow(bits) ==
    /\ \A i \in 1 .. Len(written) : ~IsBelow(written[i][2], bits)
    /\ \A o \in OrphansAdded : ~IsBelow(o[3], bits)

\* C28: for every child of a visited internal node whose sub-batch is empty,
\* nothing is written at the new version and nothing is marked as orphaned
\* at or below the child's path, and the parent, if written again, has the
\* child's descriptor as it was; a descriptor that the parent written again
\* has changed is {new_version, hash of the node stored for the child}.
C28_UntouchedSubtrees ==
    \A key \in VisitedInternal :
        /\ \A c \in ChildrenOf(nodes[key]) :
              SubBatch(extend_one_bit(key[2], c[1])) = {} =>
                  /\ UntouchedBelow(extend_one_bit(key[2], c[1]))
                  /\ Rewritten(key) =>
                        SideOf(nodes[<<version, key[2]>>], c[1]) = Some(c[2])
        /\ Rewritten(key) =>
              \A is_left \in BOOLEAN :
                  LET new == SideOf(nodes[<<version, key[2]>>], is_left)
                      at  == <<version, extend_one_bit(key[2], is_left)>>
                  IN  (new # None /\ new # SideOf(nodes[key], is_left)) =>
                          /\ at \in DOMAIN nodes
                          /\ new = Some(Child(version, NodeHash(nodes[at])))

\* A visited internal node below the root was written again with one child
\* changed and the other, an internal node with no op to apply, kept.
C28_Witness ==
    /\ version = 2
    /\ \E key \in VisitedInternal :
          /\ Rewritten(key)
          /\ \E c \in ChildrenOf(nodes[key]) :
                /\ SubBatch(extend_one_bit(key[2], c[1])) = {}
                /\ SideOf(nodes[<<version, key[2]>>], c[1]) = Some(c[2])
          /\ \E is_left \in BOOLEAN :
                /\ SideOf(nodes[<<version, key[2]>>], is_left) # None
                /\ SideOf(nodes[<<version, key[2]>>], is_left) # SideOf(nodes[key], is_left)
    /\ \E key \in VisitedInternal :
          \E c \in ChildrenOf(nodes[key]) :
              /\ SubBatch(extend_one_bit(key[2], c[1])) = {}
              /\ ~is_leaf(nodes[ChildKey(key, c)])

\* A visited internal node with an untouched leaf child collapsed: the leaf
\* was moved up, and nothing was written at or below the leaf's old path.
C28_WitnessCollapse ==
    /\ version = 2
    /\ \E key \in VisitedInternal :
          /\ <<version, key[2]>> \in DOMAIN nodes
          /\ is_leaf(nodes[<<version, key[2]>>])
          /\ \E c \in ChildrenOf(nodes[key]) :
                /\ SubBatch(extend_one_bit(key[2], c[1])) = {}
                /\ nodes[ChildKey(key, c)] = nodes[<<version, key[2]>>]


\* The keys under which a leaf is stored, at any version.
LeafKeys == {key \in DOMAIN nodes : is_leaf(nodes[key])}

\* C29: every leaf stored at a bit path, at any version and reachable from a
\* root or not, has a key hash whose first bits are that path.
C29_LeafPlacement ==
    \A key \in LeafKeys : HasPrefix(nodes[key].key_hash, key[2])

\* Leaves at full depth, a leaf that the second apply moved up to a shorter
\* path, and a leaf stored at the second version that its root does not reach.
C29_Witness ==
    /\ version = 2
    /\ \E key \in LeafKeys : Len(key[2]) = KeyBits
    /\ \E key \in LeafKeys, old \in LeafKeys :
          /\ key[1] = 2 /\ old[1] = 1
          /\ nodes[key] = nodes[old]
          /\ Len(key[2]) >= 1
          /\ Len(key[2]) < Len(old[2])
          /\ key \in Reachable(Storage, 2)
    /\ \E key \in LeafKeys : key[1] = 2 /\ key \notin Reachable(Storage, 2)


\* The keys of the nodes written by the last apply.
WrittenKeys == {written[i] : i \in 1 .. Len(written)}

\* C30: no orphans entry added by an apply names a node of the new version:
\* a node written by the apply is not recorded as orphaned by it.
C30_NoOrphanForFreshNodes ==
    \A o \in OrphansAdded :
        /\ o[2] # version
        /\ <<o[2], o[3]>> \notin WrittenKeys

\* The second apply marked the nodes on a path as orphaned, wrote new nodes
\* at the same paths, and wrote a node at a path where none was stored.
C30_Witness ==
    /\ version = 2
    /\ Cardinality(OrphansAdded) >= 3
    /\ \A o \in OrphansAdded : o[2] = 1 /\ <<1, o[3]>> \in DOMAIN nodes
    /\ \E o \in OrphansAdded : o[3] # ROOT_BITS /\ <<2, o[3]>> \in WrittenKeys
    /\ \E key \in WrittenKeys : <<1, key[2]>> \notin DOMAIN nodes


\* The leaves of the old version on which the last apply ran apply_at_leaf:
\* a leaf at the root, and the leaves whose sub-batch was not empty.
VisitedLeaves ==
    {key \in Reachable(Storage, version - 1) :
        /\ is_leaf(nodes[key])
        /\ key[2] = ROOT_BITS \/ SubBatch(key[2]) # {}}

\* The inserts of the sub-batch for keys other than the leaf's, as bindings.
Filtered(key) ==
    {<<lastBatch[i][1], lastBatch[i][2][2]>> :
        i \in {j \in SubBatch(key[2]) :
                  /\ lastBatch[j][1] # nodes[key].key_hash
                  /\ IsInsert(lastBatch[j][2])}}

\* The op of the sub-batch for the leaf's own key, if there is one.
OwnOp(key) ==
    LET hits == {i \in SubBatch(key[2]) : lastBatch[i][1] = nodes[key].key_hash}
    IN  IF hits = {} THEN None ELSE Some(lastBatch[CHOOSE i \in hits : TRUE][2])

\* The bindings held by the leaves of the subtree stored at the key.
BindingsFrom(key) ==
    {<<nodes[k].key_hash, nodes[k].value_hash>> :
        k \in {r \in ReachFrom(Storage, key[1], key[2]) : is_leaf(nodes[r])}}

\* What the leaf contributes to the new subtree: itself, with the value of
\* an insert for its key, or nothing when its key is deleted.
LeafAfter(key) ==
    LET op == OwnOp(key)
    IN  IF op = None THEN {<<nodes[key].key_hash, nodes[key].value_hash>>}
        ELSE IF IsInsert(op[1]) THEN {<<nodes[key].key_hash, op[1][2]>>}
        ELSE {}

LeafUnchangedCase(key) ==
    /\ Filtered(key) = {}
    /\ IF OwnOp(key) = None THEN TRUE
       ELSE OwnOp(key)[1] = Insert(nodes[key].value_hash)
LeafUpdatedCase(key) ==
    /\ Filtered(key) = {}
    /\ OwnOp(key) # None
    /\ IsInsert(OwnOp(key)[1])
    /\ OwnOp(key)[1][2] # nodes[key].value_hash
LeafDeletedCase(key) ==
    Filtered(key) = {} /\ OwnOp(key) = Some(Delete)

\* C31: apply on an existing leaf at path p. Unchanged: nothing is written
\* at p but the root saved again. Updated: the leaf with the new value hash
\* is written at p. Deleted: nothing is written at p. Otherwise a subtree of
\* new nodes is written at p that holds the inserts for other keys and the
\* leaf, with its new value if inserted and without it if deleted.
C31_ApplyAtLeaf ==
    \A key \in VisitedLeaves :
        LET at == <<version, key[2]>>
        IN  /\ LeafUnchangedCase(key) =>
                  IF key[2] = ROOT_BITS
                  THEN at \in DOMAIN nodes /\ nodes[at] = nodes[key]
                  ELSE at \notin DOMAIN nodes
            /\ LeafUpdatedCase(key) =>
                  /\ at \in DOMAIN nodes
                  /\ nodes[at] = LeafNode(nodes[key].key_hash, OwnOp(key)[1][2])
            /\ LeafDeletedCase(key) => at \notin DOMAIN nodes
            /\ Filtered(key) # {} =>
                  /\ at \in DOMAIN nodes
                  /\ BindingsFrom(at) = Filtered(key) \cup LeafAfter(key)
                  /\ \A k \in ReachFrom(Storage, at[1], at[2]) : k[1] = version
                  /\ is_leaf(nodes[at]) <=>
                        Cardinality(Filtered(key) \cup LeafAfter(key)) = 1

\* A leaf below the root replaced by a subtree that holds it with its new
\* value and the key inserted at its path.
C31_Witness ==
    /\ version = 2
    /\ \E key \in VisitedLeaves :
          /\ key[2] # ROOT_BITS
          /\ Filtered(key) # {}
          /\ OwnOp(key) # None
          /\ IsInsert(OwnOp(key)[1])
          /\ OwnOp(key)[1][2] # nodes[key].value_hash
          /\ ~is_leaf(nodes[<<version, key[2]>>])

\* A leaf below the root updated, and another one deleted.
C31_WitnessUpdateDelete ==
    /\ version = 2
    /\ \E key \in VisitedLeaves : key[2] # ROOT_BITS /\ LeafUpdatedCase(key)
    /\ \E key \in VisitedLeaves : key[2] # ROOT_BITS /\ LeafDeletedCase(key)

\* A leaf deleted while another key is inserted at its path.
C31_WitnessDelete ==
    /\ version = 2
    /\ \E key \in VisitedLeaves :
          /\ key[2] # ROOT_BITS
          /\ Filtered(key) # {}
          /\ OwnOp(key) = Some(Delete)
          /\ is_leaf(nodes[<<version, key[2]>>])


\* The keys that a descent from the key along the key hash looks up.
RECURSIVE LooksUp(_, _)
LooksUp(key, key_hash) ==
    IF key \notin DOMAIN nodes THEN {key}
    ELSE IF is_leaf(nodes[key]) THEN {key}
    ELSE LET bit   == bit_at_index(key_hash, Len(key[2]))
             child == SideOf(nodes[key], bit = 0)
         IN  IF child = None THEN {key}
             ELSE {key} \cup LooksUp(<<child[1].version, Append(key[2], bit)>>, key_hash)

\* The missing node is referred to by a child descriptor of an internal node
\* that the last apply visited.
LostUnderVisited ==
    \E key \in VisitedInternal :
        \E c \in ChildrenOf(nodes[key]) : ChildKey(key, c) = lost[1]

\* C32: when the node that a child descriptor of a visited internal node
\* refers to is missing, apply returns NotFound; when the root of the version
\* or a node on the key's path is missing, prove returns NotFound; neither
\* panics.
C32_MissingNodeIsNotFound ==
    lost # None =>
        /\ (version = 2 /\ LostUnderVisited) => result = "NotFound"
        /\ result # "Panic"
        /\ \A k \in KeyHashes :
              /\ lost[1] \in LooksUp(<<1, ROOT_BITS>>, k) =>
                    prove(Storage, k, 1).kind = "NotFound"
              /\ prove(Storage, k, 1).kind # "Panic"

\* The cases in which the missing node is reported: apply with no op for the
\* missing child, and prove.
C32_ReportedCases ==
    lost # None =>
        /\ (/\ version = 2
            /\ LostUnderVisited
            /\ SubBatch(lost[1][2]) = {}) => result = "NotFound"
        /\ \A k \in KeyHashes :
              lost[1] \in LooksUp(<<1, ROOT_BITS>>, k) =>
                  prove(Storage, k, 1).kind = "NotFound"

C32_ReportedWitness ==
    /\ lost # None
    /\ version = 2
    /\ LostUnderVisited
    /\ SubBatch(lost[1][2]) = {}
    /\ result = "NotFound"


\* ---------------------------------------------------------------------
\* C33. Version precondition.
\* The claim as stated: apply called with new_version different from 0
\* and new_version <= old_version fails its assertion before any write to
\* nodes or orphans is made, and apply called with new_version = 0 passes
\* the assertion for every old_version.
NotIncremental ==
    /\ call # None
    /\ call[1].new_version # 0
    /\ call[1].new_version <= call[1].old_version

StoreAsBeforeCall == nodes = call[1].nodes /\ orphans = call[1].orphans

\* C33, as stated: a call whose versions are not incremental panics in
\* every build and leaves nodes and orphans as they were; new_version = 0
\* never panics.
C33_AssertionAlwaysFails ==
    call # None =>
        /\ (NotIncremental => result = "Panic" /\ StoreAsBeforeCall)
        /\ (call[1].new_version = 0 => result # "Panic")

\* C33 (amended): in a build with debug assertions, apply called with
\* new_version different from 0 and new_version <= old_version panics on
\* its assertion before any write to nodes or orphans is made; in every
\* build, apply called with new_version = 0 passes for every old_version;
\* in a build without debug assertions the assertion does not exist, and
\* no call panics on it.
C33_DebugAssertion ==
    call # None =>
        /\ (NotIncremental /\ call[1].debug_assertions
                => result = "Panic" /\ StoreAsBeforeCall /\ written = <<>>)
        /\ (call[1].new_version = 0 => result # "Panic")
        /\ (~call[1].debug_assertions => result # "Panic")

\* A populated tree, a debug build, a call with new_version = old_version.
C33_Witness ==
    /\ NotIncremental
    /\ call[1].debug_assertions
    /\ call[1].old_version = 1
    /\ call[1].new_version = 1
    /\ call[1].nodes # <<>>
    /\ call[1].batch # <<>>
    /\ result = "Panic"

\* new_version = 0 with old_version > 0 passes in a debug build.
C33_WitnessZero ==
    /\ call # None
    /\ call[1].debug_assertions
    /\ call[1].new_version = 0
    /\ call[1].old_version > 0
    /\ call[1].nodes # <<>>
    /\ result = "Ok"

\* A release build writes under a version that is not incremental.
C33_WitnessRelease ==
    /\ NotIncremental
    /\ ~call[1].debug_assertions
    /\ result = "Ok"
    /\ ~StoreAsBeforeCall


\* ---------------------------------------------------------------------
\* C34. Reader/writer exclusion and visibility in SharedStore: at no time
\* is the write guard held while any other guard, read or write, the read
\* guard of a scan iterator included, is held on the same store; and a
\* write, remove or flush completed through one holder is observed by
\* every later read or scan started through any holder.
OpResult(op) == IF IsInsert(op) THEN Some(op[2]) ELSE None

WriteGuardIsExclusive ==
    writer # None =>
        /\ readers = {}
        /\ \A h \in Holders : iter[h] = None
        /\ \A t \in Threads : pc[t] = "writing" <=> t = writer[1]

ReadSeesLastWrite ==
    (seen # None /\ seen[1].read # None /\ seen[1].read[1].last # None) =>
        seen[1].read[1].value = OpResult(seen[1].read[1].last[1].op)

\* Every write completed so far completed before the scans that are out
\* began (the write guard excludes them): what a scan has handed out has
\* the written values, and a scan that ended has every written key.
ScanSeesLastWrites ==
    seen # None =>
        \A h \in Holders : yielded[h] # None =>
            LET recs == yielded[h][1].records
                keys == {recs[i][1] : i \in 1 .. Len(recs)}
            IN  /\ \A i \in 1 .. Len(recs) :
                      recs[i][1] \in DOMAIN seen[1].by =>
                          seen[1].by[recs[i][1]].op = Insert(recs[i][2])
                /\ yielded[h][1].ended =>
                      \A k \in DOMAIN seen[1].by :
                          k \in keys <=> IsInsert(seen[1].by[k].op)

\* C34: the write guard excludes every other guard, and reads and scans
\* observe the last completed write of each key.
C34_ExclusionAndVisibility ==
    /\ WriteGuardIsExclusive
    /\ ReadSeesLastWrite
    /\ ScanSeesLastWrites

\* A write made by one thread through its handle was read back by another
\* thread through another handle, while that thread's scan, begun after
\* the write, has handed the written record out too.
C34_Witness ==
    /\ seen # None
    /\ seen[1].read # None
    /\ seen[1].read[1].last # None
    /\ seen[1].read[1].last[1].thread # owner[seen[1].read[1].holder]
    /\ IsInsert(seen[1].read[1].last[1].op)
    /\ \E h \in Holders :
          /\ owner[h] = owner[seen[1].read[1].holder]
          /\ yielded[h] # None
          /\ \E i \in 1 .. Len(yielded[h][1].records) :
                yielded[h][1].records[i][1] = seen[1].read[1].key
    /\ \E t \in Threads : pc[t] = "wait_write"


\* ---------------------------------------------------------------------
\* C35. SharedStore scan progress: with no concurrent writes the iterator
\* terminates after yielding finitely many records, yields every key at
\* most once, and yields keys in strictly increasing order for Ascending
\* and strictly decreasing order for Descending, across page boundaries as
\* well as inside a page.
StrictlyOrdered(recs, order) ==
    \A i \in 1 .. Len(recs) - 1 :
        IF order = "Ascending"
        THEN BytesLt(recs[i][1], recs[i + 1][1])
        ELSE BytesLt(recs[i + 1][1], recs[i][1])

EachKeyOnce(recs) ==
    \A i, j \in 1 .. Len(recs) : recs[i][1] = recs[j][1] => i = j

\* The records of the store the scan's bounds admit.
InScanRange(recs, min, max) ==
    \A i \in 1 .. Len(recs) :
        /\ recs[i][1] \in DOMAIN store
        /\ InRange(recs[i][1], min, max)

\* Termination: every call of next either hands out one more record or
\* returns None, and the records handed out are distinct keys of the
\* store, so None is returned after at most that many calls.
NextYieldsOrEnds ==
    (iter[1] # None /\ ~yielded[1][1].ended) =>
        LET n == iter_next(store, iter[1][1])
        IN  n.item # None =>
                /\ n.item[1][1] \in DOMAIN store
                /\ \A i \in 1 .. Len(yielded[1][1].records) :
                       n.item[1][1] # yielded[1][1].records[i][1]

\* C35: the records a scan has handed out are strictly ordered, distinct
\* keys of the store within the bounds, never more than the store has, and
\* the next call hands out a new key or ends the scan.
C35_ScanProgress ==
    yielded[1] # None =>
        /\ StrictlyOrdered(yielded[1][1].records, yielded[1][1].order)
        /\ EachKeyOnce(yielded[1][1].records)
        /\ InScanRange(yielded[1][1].records, yielded[1][1].min, yielded[1][1].max)
        /\ Len(yielded[1][1].records) <= Cardinality(DOMAIN store)
        /\ NextYieldsOrEnds

\* An ascending scan that went over a page boundary and ended.
C35_Witness ==
    /\ yielded[1] # None
    /\ yielded[1][1].order = "Ascending"
    /\ yielded[1][1].ended
    /\ Len(yielded[1][1].records) > BATCH_SIZE

\* A descending scan that went over a page boundary and ended.
C35_WitnessDescending ==
    /\ yielded[1] # None
    /\ yielded[1][1].order = "Descending"
    /\ yielded[1][1].ended
    /\ Len(yielded[1][1].records) > BATCH_SIZE


\* ---------------------------------------------------------------------
\* C36. No unreachable nodes are left behind: after apply(old_version,
\* new_version, batch), every node stored under new_version is reachable
\* from the root stored at (new_version, empty path); in particular, when
\* a leaf is promoted through several collapsed internal nodes, no copy of
\* it remains stored at the intermediate paths under new_version.
C36_NoUnreachableNodes ==
    version >= 1 =>
        \A key \in NodesAtVersion(version) : key \in Reachable(Storage, version)

\* The part of C36 that holds: the nodes below which nothing collapsed. A
\* node written at new_version is reachable unless it is a leaf whose copy
\* is also stored at a shorter path of new_version (it was moved up), or
\* the tree or a subtree above it became empty or a single leaf.
C36_OnlyPromotedCopiesAreLeft ==
    version >= 1 =>
        \A key \in NodesAtVersion(version) \ Reachable(Storage, version) :
            /\ is_leaf(nodes[key])
            /\ \E up \in NodesAtVersion(version) :
                  /\ Len(up[2]) < Len(key[2])
                  /\ HasPrefix(nodes[key].key_hash, up[2])
                  /\ nodes[up] = nodes[key]


\* ---------------------------------------------------------------------
\* C37. Orphan entries are sound: after any sequence of apply calls with
\* strictly increasing versions, every orphans entry (since, version,
\* path) refers to a node that is stored at (version, path), has version
\* < since, and that node is not reachable from the root at version since.
C37_OrphansAreSound ==
    \A o \in orphans :
        /\ <<o[2], o[3]>> \in DOMAIN nodes
        /\ o[2] < o[1]
        /\ o[1] <= version
        /\ <<o[2], o[3]>> \notin Reachable(Storage, o[1])

\* The second apply replaced a leaf below the root and left the root's
\* other subtree as it was: the old root, an internal node on the way and
\* the old leaf are orphaned, and the new root still reaches a node of
\* the first version.
C37_Witness ==
    /\ version = 2
    /\ <<2, 1, ROOT_BITS>> \in orphans
    /\ \E o \in orphans : Len(o[3]) >= 1 /\ ~is_leaf(nodes[<<o[2], o[3]>>])
    /\ \E o \in orphans : is_leaf(nodes[<<o[2], o[3]>>])
    /\ \E key \in Reachable(Storage, 2) : key[1] = 1


\* ---------------------------------------------------------------------
\* C38. MockHostState iterator invalidation: after any write or remove on
\* the host state, every iterator id issued by an earlier scan is gone, so
\* next(id) and peek(id) for such an id return an error; consequently
\* every live iterator's remaining records equal the not-yet-consumed part
\* of a scan of the current store content with the iterator's bounds and
\* order.
AfterHostMutation == hostCall # None /\ hostCall[1].op \in {"write", "remove"}

RestOfScan(id) ==
    LET all == MockScan(hostStore, issued[id].min, issued[id].max, issued[id].order)
    IN  SubSeq(all, issued[id].consumed + 1, Len(all))

\* C38: right after a write or remove no iterator is left and next and
\* peek fail for every id; every live iterator holds the not-yet-consumed
\* rest of a scan of the current store.
C38_IteratorInvalidation ==
    /\ AfterHostMutation =>
          /\ iterators = <<>>
          /\ \A id \in DOMAIN issued \cup HostIds :
                /\ ~host_next(Host, id).ret.ok
                /\ ~host_peek(Host, id).ret.ok
    /\ \A id \in DOMAIN iterators :
          /\ id \in DOMAIN issued
          /\ issued[id].consumed <= Len(MockScan(hostStore, issued[id].min,
                                                 issued[id].max, issued[id].order))
          /\ iterators[id] = RestOfScan(id)

\* A write made while two iterators were out, one of them partly consumed.
C38_Witness ==
    /\ AfterHostMutation
    /\ hostCall[1].op = "write"
    /\ Cardinality(DOMAIN hostCall[1].iterators) = 2
    /\ \E id \in DOMAIN hostCall[1].iterators :
          /\ issued[id].consumed >= 1
          /\ hostCall[1].iterators[id] # <<>>
    /\ hostStore # <<>>

\* A live iterator, partly consumed, with records left.
C38_WitnessLive ==
    \E id \in DOMAIN iterators :
        /\ issued[id].consumed >= 1
        /\ iterators[id] # <<>>
        /\ issued[id].order = "Descending"

\* ---------------------------------------------------------------------
\* C39. MockHostState iterator ids and cursors: each scan returns an id
\* strictly greater than every id returned before, ids are never reused
\* even after write or remove cleared the iterators, scan returns an error
\* instead of wrapping when the u32 counter would overflow, next(id) and
\* peek(id) on an id never issued or already cleared return an error, and
\* peek(id) returns the record the following next(id) returns without
\* advancing the iterator.
HostCallIs(op) == hostCall # None /\ hostCall[1].op = op

ScanIdsIncrease ==
    (HostCallIs("scan") /\ hostCall[1].ret.ok) =>
        /\ \A id \in DOMAIN hostCall[1].issued : U32Lt(id, hostCall[1].ret.val)
        /\ hostCall[1].ret.val \notin DOMAIN hostCall[1].iterators
        /\ hostCall[1].ret.val = hostCall[1].next_iter_id
        /\ U32Lt(hostCall[1].ret.val, next_iter_id)

ScanFailsOnOverflow ==
    (HostCallIs("scan") /\ hostCall[1].next_iter_id = U32_MAX) =>
        /\ ~hostCall[1].ret.ok
        /\ iterators = hostCall[1].iterators
        /\ next_iter_id = U32_MAX

\* Every id the counter has not reached was never issued; an issued id
\* without an iterator was cleared.
UnknownIdIsAnError ==
    (HostCallIs("next") \/ HostCallIs("peek")) =>
        (hostCall[1].arg \notin DOMAIN hostCall[1].iterators => ~hostCall[1].ret.ok)

PeekDoesNotAdvance ==
    (HostCallIs("peek") /\ hostCall[1].ret.ok) =>
        /\ iterators = hostCall[1].iterators
        /\ host_next(Host, hostCall[1].arg).ret = hostCall[1].ret

\* C39: ids strictly increase and are not reused, scan fails at u32::MAX
\* instead of wrapping, next and peek fail on ids without an iterator, and
\* peek returns what the following next returns without advancing.
C39_IdsAndCursors ==
    /\ ScanIdsIncrease
    /\ ScanFailsOnOverflow
    /\ UnknownIdIsAnError
    /\ PeekDoesNotAdvance
    /\ \A id \in DOMAIN iterators : U32Lt(id, next_iter_id)

\* The counter is at u32::MAX, the iterator with the last id is out, and
\* one more scan was refused.
C39_Witness ==
    /\ HostCallIs("scan")
    /\ hostCall[1].next_iter_id = U32_MAX
    /\ ~hostCall[1].ret.ok
    /\ U32_MAX_LESS_1 \in DOMAIN iterators

\* A scan made after a write cleared an earlier iterator got a new id.
C39_WitnessAfterClear ==
    /\ HostCallIs("scan")
    /\ hostCall[1].ret.ok
    /\ hostCall[1].issued # <<>>
    /\ hostCall[1].iterators = <<>>

\* peek handed out a record, and peek on a cleared id failed.
C39_WitnessPeek ==
    /\ HostCallIs("peek")
    /\ hostCall[1].ret.ok
    /\ hostCall[1].ret.val # None
    /\ issued[hostCall[1].arg].consumed >= 1

C39_WitnessCleared ==
    /\ HostCallIs("next")
    /\ ~hostCall[1].ret.ok
    /\ hostCall[1].arg \in DOMAIN issued


\* ---------------------------------------------------------------------
\* C40. Path::update and Item::update: when the action returns
\* Ok(Some(data)) the key holds the serialization of data afterwards, when
\* it returns Ok(None) the key is removed, and when the load or the action
\* returns an error the store is left unchanged and the error is returned.
SerializationOf(helper, data) ==
    IF helper = "Path" THEN to_borsh_vec(data).val ELSE to_json(data).val

OtherKeysKept(c) ==
    \A k \in (DOMAIN kvStore \cup DOMAIN c.store) \ {c.key} :
        MockRead(kvStore, k) = MockRead(c.store, k)

C40_WitnessLoadError ==
    /\ updCall # None
    /\ updCall[1].helper = "Item"
    /\ ~updCall[1].given.ok
    /\ ~updCall[1].ret.ok

\* A value replaced by another, and a value removed.
C40_WitnessSaved ==
    /\ updCall # None
    /\ updCall[1].given.ok /\ updCall[1].given.val # None
    /\ updCall[1].returned[1].ok /\ updCall[1].returned[1].val # None
    /\ updCall[1].returned[1].val # updCall[1].given.val
    /\ Cardinality(DOMAIN kvStore) = 2

C40_WitnessRemoved ==
    /\ updCall # None
    /\ updCall[1].helper = "Item"
    /\ updCall[1].given.ok /\ updCall[1].given.val # None
    /\ updCall[1].returned[1] = Ok(None)
    /\ kvStore # <<>>

====
